---------------------------- MODULE Spec2Model ----------------------------
(***************************************************************************)
(* A model of the j2gbc Game Boy emulator core: the CPU executor           *)
(* (src/src/emu/cpu.rs), the LCD timing/rendering state machine            *)
(* (src/j2gbc/src/lcd/mod.rs) and the helpers they use.                    *)
(*                                                                         *)
(* Handlers are written as operators over records (one record per Rust     *)
(* struct) that return the updated record together with the handler's      *)
(* return value; the actions at the end of the module apply them.          *)
(* Byte stores (Ram, the framebuffers, the tile and sprite caches) are     *)
(* kept as finite maps holding only the entries that differ from their     *)
(* construction value; a read of an absent key gives that value.           *)
(***************************************************************************)
EXTENDS Integers, Sequences, FiniteSets, TLC

VARIABLES
    cpu,       \* Cpu: registers, pc, sp, cycle, interrupt_master_enable, halted
    mmu,       \* Mmu: cartridge ROM, RAM bytes, interrupt_enable
    lcd,       \* Lcd (owned by the Mmu): registers, timers, caches, framebuffers
    rfd,       \* the run_for_duration call in progress, if any
    obs,       \* history of what the last step did (return values, counters)
    pal,       \* palette_convert application: inputs and result
    mbc,       \* Mbc0: cartridge ROM and external RAM
    host,      \* what the cartridge's caller holds: last result, SRAM snapshot
    sq,        \* SquareChannel
    aud,       \* what the channel's caller holds: sample cycle, last sample
    twin       \* a second Lcd given the same calls, and its last pump_cycle result

\* the units exercised on their own, outside the Cpu's address space
units == <<mbc, host, sq, aud, twin>>

vars == <<cpu, mmu, lcd, rfd, obs, pal, units>>

---------------------------------------------------------------------------
(* Bounds of the model                                                     *)

\* frames of LCD time an LCD-only run is pumped through
MaxFrames == 2
\* instructions a CPU run fetches
MaxInstr == 5
\* coarse pump_cycle calls in an LCD-only run
MaxCoarse == 4
\* run_for_duration calls a host makes
MaxCalls == 2
\* run_cycle calls a host makes itself
MaxDirect == 1
\* the latest cycle a square channel is sampled at
MaxSqCycle == 16
\* configuration calls made on a square channel
MaxSqOps == 3

---------------------------------------------------------------------------
(* Bytes, words and bit helpers                                            *)

Byte == 0..255

Min(a, b) == IF a <= b THEN a ELSE b
Max(a, b) == IF a >= b THEN a ELSE b

Pow2(n) == 2 ^ n

\* bit n of v
Bit(v, n) == (v \div Pow2(n)) % 2

\* v >> n on an unsigned value
Shr(v, n) == v \div Pow2(n)

\* a & b on bytes, bit by bit; tabulated once
AndBits(a, b) ==
    LET RECURSIVE go(_)
        go(i) == IF i = 8 THEN 0
                 ELSE Bit(a, i) * Bit(b, i) * Pow2(i) + go(i + 1)
    IN go(0)
AndTable == [a \in Byte |-> [b \in Byte |-> AndBits(a, b)]]
BitAnd(a, b) == AndTable[a][b]

\* a | b on bytes
BitOr(a, b) == a + b - BitAnd(a, b)

\* a & !m on bytes
BitClear(a, m) == a - BitAnd(a, m)

hi(v) == (v \div 256) % 256
lo(v) == v % 256
hi_lo(h, l) == h * 256 + l

\* Address arithmetic wraps modulo 2^16
AddrAdd(a, d) == (a + d) % 65536
AddrSub(a, d) == (a - d + 65536) % 65536

\* finite maps with a construction value
Get(m, k, d) == IF k \in DOMAIN m THEN m[k] ELSE d
Put(m, k, v, d) ==
    IF v = d
    THEN [x \in DOMAIN m \ {k} |-> m[x]]
    ELSE [x \in DOMAIN m \cup {k} |-> IF x = k THEN v ELSE m[x]]
EmptyMap == [x \in {} |-> 0]

---------------------------------------------------------------------------
(* Clock and LCD timing constants                                          *)

\* CLOCK_RATE * ns / 1_000_000_000 in u64 arithmetic.  CLOCK_RATE is
\* 4_190_000 = 419 * 10_000, so the quotient equals (419 * ns) / 100_000;
\* ns is split at 100_000 to keep the products small.
ClockCycles(ns) ==
    419 * (ns \div 100000) + (419 * (ns % 100000)) \div 100000

LINE_CYCLE_TIME == ClockCycles(108700)
HBLANK_DURATION == ClockCycles(48600)
MODE_10_DURATION == ClockCycles(19000)
VBLANK_DURATION == LINE_CYCLE_TIME * 10
SCREEN_CYCLE_TIME == 154 * LINE_CYCLE_TIME

SCREEN_W == 160
SCREEN_H == 144
TILE_COUNT == 384
OBJ_COUNT == 40

LYC_MATCH_INT_FLAG == 64
MODE_10_INT_FLAG == 32
MODE_00_INT_FLAG == 8
MODE_00_MASK == 0
MODE_01_MASK == 1
MODE_10_MASK == 2
LYC_MATCH_FLAG == 4
BG_ENABLED_FLAG == 1
WINDOW_ENABLED_FLAG == 32
OAM_ENABLED_FLAG == 2
OAM_TALL_FLAG == 4
BGD_CHAR_DAT_FLAG == 16
BGD_CODE_DAT_FLAG == 8
WINDOW_CODE_DAT_FLAG == 64

REG_LCDC == 65344
REG_STAT == 65345
REG_SCY == 65346
REG_SCX == 65347
REG_LY == 65348
REG_LYC == 65349
REG_BGP == 65351
REG_OBP0 == 65352
REG_OBP1 == 65353
REG_WY == 65354
REG_WX == 65355

\* address ranges of the memory map (first, last)
RNG_CHAR_DAT == <<32768, 38911>>
RNG_LCD_BGDD1 == <<38912, 39935>>
RNG_LCD_BGDD2 == <<39936, 40959>>
RNG_LCD_OAM == <<65024, 65183>>
in_(a, rng) == rng[1] <= a /\ a <= rng[2]

---------------------------------------------------------------------------
(* j2ds::Timer: a periodic signal that rises at start + k * period and     *)
(* falls duration cycles later.  update reports at most one edge per call. *)

\* A signal of zero duration (the duty step timer) is a pulse: it has one
\* event per period, the first one a full period after its start.
Timer_new(period, start, duration) ==
    [period |-> period,
     pulse |-> duration = 0,
     next_rise |-> IF duration = 0 THEN start + period ELSE start,
     next_fall |-> start + duration]

Timer_update(t, cycle) ==
    IF cycle >= t.next_rise /\ (t.pulse \/ t.next_rise <= t.next_fall)
    THEN [timer |-> [t EXCEPT !.next_rise = @ + t.period], ev |-> "RisingEdge"]
    ELSE IF ~t.pulse /\ cycle >= t.next_fall
    THEN [timer |-> [t EXCEPT !.next_fall = @ + t.period], ev |-> "FallingEdge"]
    ELSE [timer |-> t, ev |-> "None"]

\* j2ds::Clock: tick() answers true on every period-th call
Clock_new(period) == [period |-> period, count |-> 0]
Clock_reset(c) == [c EXCEPT !.count = 0]
Clock_tick(c) ==
    IF c.count + 1 >= c.period
    THEN [clock |-> [c EXCEPT !.count = 0], fired |-> TRUE]
    ELSE [clock |-> [c EXCEPT !.count = @ + 1], fired |-> FALSE]

Timer_next(t) == IF t.pulse THEN t.next_rise ELSE Min(t.next_rise, t.next_fall)

next_timer_event(ts) ==
    CHOOSE c \in {Timer_next(ts[i]) : i \in DOMAIN ts} :
        \A j \in DOMAIN ts : c <= Timer_next(ts[j])

---------------------------------------------------------------------------
(* Lcd: construction                                                       *)

\* Colours are kept as their index into COLORS; COLORS[0] is COLOR_WHITE.
COLOR_WHITE == 0

Lcd_new ==
    [lcdc |-> 131, stat |-> 0, bgp |-> 0, obp0 |-> 0, obp1 |-> 0,
     wx |-> 0, wy |-> 0, sx |-> 0, sy |-> 0, lyc |-> 0, ly |-> 0,
     cdata |-> EmptyMap, bgdd1 |-> EmptyMap, bgdd2 |-> EmptyMap,
     oam |-> EmptyMap,
     fbs |-> [i \in 0..1 |-> EmptyMap],
     fbi |-> 0,
     hblank_timer |-> Timer_new(LINE_CYCLE_TIME,
                        LINE_CYCLE_TIME - HBLANK_DURATION - MODE_10_DURATION,
                        HBLANK_DURATION),
     vblank_timer |-> Timer_new(SCREEN_CYCLE_TIME,
                        SCREEN_H * LINE_CYCLE_TIME,
                        VBLANK_DURATION),
     mode10_timer |-> Timer_new(LINE_CYCLE_TIME,
                        LINE_CYCLE_TIME - HBLANK_DURATION,
                        HBLANK_DURATION),
     running_until_cycle |-> 0,
     tiles |-> EmptyMap,
     objs |-> EmptyMap]

\* index of the buffer get_framebuffer returns, and of the other one
get_framebuffer(l) == l.fbi
\* (faulty variant: the renderer is handed the buffer on display)
get_back_framebuffer_front(l) == l.fbi
get_back_framebuffer(l) == IF l.fbi = 0 THEN 1 ELSE 0

swap(l) == [l EXCEPT !.fbi = IF l.fbi = 0 THEN 1 ELSE 0]

get_next_event_cycle(l) ==
    next_timer_event(<<l.hblank_timer, l.vblank_timer, l.mode10_timer>>)

set_running_until(l, cycle) == [l EXCEPT !.running_until_cycle = cycle]

is_bg_enabled(l) == BitAnd(l.lcdc, BG_ENABLED_FLAG) # 0
is_window_enabled(l) == BitAnd(l.lcdc, WINDOW_ENABLED_FLAG) # 0
is_oam_enabled(l) == BitAnd(l.lcdc, OAM_ENABLED_FLAG) # 0
is_lyc_int_enabled(l) == BitAnd(l.stat, LYC_MATCH_INT_FLAG) # 0
is_hblank_int_enabled(l) == BitAnd(l.stat, MODE_00_INT_FLAG) # 0
is_mode_10_int_enabled(l) == BitAnd(l.stat, MODE_10_INT_FLAG) # 0
get_bg_char_addr_start(l) == BitAnd(l.lcdc, BGD_CHAR_DAT_FLAG) = 0
get_bg_code_dat_start(l) ==
    IF BitAnd(l.lcdc, BGD_CODE_DAT_FLAG) = 0 THEN 38912 ELSE 39936
get_window_code_dat_start(l) ==
    IF BitAnd(l.lcdc, WINDOW_CODE_DAT_FLAG) = 0 THEN 38912 ELSE 39936

\* stat = (stat & 0b1111_1100) | mode
SetMode(l, mode) == [l EXCEPT !.stat = (l.stat \div 4) * 4 + mode]

---------------------------------------------------------------------------
(* Lcd: memory device read                                                 *)

Lcd_read(l, a) ==
    IF in_(a, RNG_LCD_BGDD1) THEN [ok |-> TRUE, v |-> Get(l.bgdd1, a - RNG_LCD_BGDD1[1], 0)]
    ELSE IF in_(a, RNG_LCD_BGDD2) THEN [ok |-> TRUE, v |-> Get(l.bgdd2, a - RNG_LCD_BGDD2[1], 0)]
    ELSE IF in_(a, RNG_CHAR_DAT) THEN [ok |-> TRUE, v |-> Get(l.cdata, a - RNG_CHAR_DAT[1], 0)]
    ELSE IF in_(a, RNG_LCD_OAM) THEN [ok |-> TRUE, v |-> Get(l.oam, a - RNG_LCD_OAM[1], 0)]
    ELSE IF a = REG_LY THEN [ok |-> TRUE, v |-> l.ly]
    ELSE IF a = REG_LYC THEN [ok |-> TRUE, v |-> l.lyc]
    ELSE IF a = REG_STAT THEN [ok |-> TRUE, v |-> l.stat]
    ELSE IF a = REG_LCDC THEN [ok |-> TRUE, v |-> l.lcdc]
    ELSE IF a = REG_OBP0 THEN [ok |-> TRUE, v |-> l.obp0]
    ELSE IF a = REG_OBP1 THEN [ok |-> TRUE, v |-> l.obp1]
    ELSE IF a = REG_WX THEN [ok |-> TRUE, v |-> l.wx]
    ELSE IF a = REG_WY THEN [ok |-> TRUE, v |-> l.wy]
    ELSE IF a = REG_SCX THEN [ok |-> TRUE, v |-> l.sx]
    ELSE IF a = REG_SCY THEN [ok |-> TRUE, v |-> l.sy]
    ELSE [ok |-> FALSE, v |-> 0]

---------------------------------------------------------------------------
(* Tile and sprite caches (lcd/tile.rs, lcd/obj.rs)                        *)

\* MonoTile row: pixel x takes bit 7-x of the first byte as its low bit and
\* bit 7-x of the second byte as its high bit
DecodeRow(b1, b2) == [x \in 0..7 |-> Bit(b1, 7 - x) + 2 * Bit(b2, 7 - x)]
BlankRow == [x \in 0..7 |-> 0]

\* tiles[t].read_row(r)
read_row(l, t, r) == Get(l.tiles, <<t, r>>, BlankRow)

Obj_default == [y |-> 0, x |-> 0, char_ |-> 0, flags |-> 0]
Obj_priority(o) == Bit(o.flags, 7) = 1
Obj_yflip(o) == Bit(o.flags, 6) = 1
Obj_xflip(o) == Bit(o.flags, 5) = 1
Obj_high_palette(o) == Bit(o.flags, 4) = 1

read_obj(l, index) ==
    LET a == RNG_LCD_OAM[1] + index * 4 IN
    [y |-> Lcd_read(l, a).v,
     x |-> Lcd_read(l, a + 1).v,
     char_ |-> Lcd_read(l, a + 2).v,
     flags |-> Lcd_read(l, a + 3).v]

\* (faulty variant: the row is taken from the byte offset, not the row offset)
update_tile_at_byte_row(l, a) ==
    LET byte_offset == a - RNG_CHAR_DAT[1]
        b1 == Get(l.cdata, byte_offset, 0)
        b2 == Get(l.cdata, byte_offset + 1, 0)
    IN [l EXCEPT !.tiles = Put(@, <<byte_offset \div 16, byte_offset % 16>>,
                               DecodeRow(b1, b2), BlankRow)]

update_tile_at(l, a) ==
    LET byte_offset == a - RNG_CHAR_DAT[1]
        char_offset == byte_offset \div 16
        row_offset == (byte_offset % 16) \div 2
        b1 == Get(l.cdata, byte_offset, 0)
        b2 == Get(l.cdata, byte_offset + 1, 0)
    IN [l EXCEPT !.tiles = Put(@, <<char_offset, row_offset>>,
                               DecodeRow(b1, b2), BlankRow)]

\* (faulty variant: the byte offset is used as the sprite index)
update_obj_at_byte_index(l, a) ==
    LET byte_offset == a - RNG_LCD_OAM[1]
        obj_index == byte_offset % OBJ_COUNT
    IN [l EXCEPT !.objs = Put(@, obj_index, read_obj(l, obj_index), Obj_default)]

update_obj_at(l, a) ==
    LET byte_offset == a - RNG_LCD_OAM[1]
        obj_index == byte_offset \div (160 \div OBJ_COUNT)
    IN [l EXCEPT !.objs = Put(@, obj_index, read_obj(l, obj_index), Obj_default)]

---------------------------------------------------------------------------
(* Lcd: memory device write                                                *)

Lcd_write(l, a, v) ==
    IF in_(a, RNG_LCD_BGDD1)
    THEN [ok |-> TRUE, lcd |-> [l EXCEPT !.bgdd1 = Put(@, a - RNG_LCD_BGDD1[1], v, 0)]]
    ELSE IF in_(a, RNG_LCD_BGDD2)
    THEN [ok |-> TRUE, lcd |-> [l EXCEPT !.bgdd2 = Put(@, a - RNG_LCD_BGDD2[1], v, 0)]]
    ELSE IF in_(a, RNG_CHAR_DAT)
    THEN [ok |-> TRUE,
          lcd |-> update_tile_at(
                     [l EXCEPT !.cdata = Put(@, a - RNG_CHAR_DAT[1], v, 0)],
                     a - (a % 2))]
    ELSE IF in_(a, RNG_LCD_OAM)
    THEN [ok |-> TRUE,
          lcd |-> update_obj_at(
                     [l EXCEPT !.oam = Put(@, a - RNG_LCD_OAM[1], v, 0)], a)]
    ELSE IF a = REG_LY THEN [ok |-> FALSE, lcd |-> l]
    ELSE IF a = REG_LYC THEN [ok |-> TRUE, lcd |-> [l EXCEPT !.lyc = v]]
    ELSE IF a = REG_LCDC THEN [ok |-> TRUE, lcd |-> [l EXCEPT !.lcdc = v]]
    ELSE IF a = REG_STAT THEN [ok |-> TRUE, lcd |-> [l EXCEPT !.stat = v]]
    ELSE IF a = REG_BGP THEN [ok |-> TRUE, lcd |-> [l EXCEPT !.bgp = v]]
    ELSE IF a = REG_OBP0 THEN [ok |-> TRUE, lcd |-> [l EXCEPT !.obp0 = v]]
    ELSE IF a = REG_OBP1 THEN [ok |-> TRUE, lcd |-> [l EXCEPT !.obp1 = v]]
    ELSE IF a = REG_WX THEN [ok |-> TRUE, lcd |-> [l EXCEPT !.wx = v]]
    ELSE IF a = REG_WY THEN [ok |-> TRUE, lcd |-> [l EXCEPT !.wy = v]]
    ELSE IF a = REG_SCX THEN [ok |-> TRUE, lcd |-> [l EXCEPT !.sx = v]]
    ELSE IF a = REG_SCY THEN [ok |-> TRUE, lcd |-> [l EXCEPT !.sy = v]]
    ELSE [ok |-> FALSE, lcd |-> l]

---------------------------------------------------------------------------
(* Lcd: scanline rendering                                                 *)

\* (faulty variant: the index is not scaled to two bits per colour)
palette_convert_unscaled(v, p) == BitAnd(Shr(p, v), 3)
\* (p >> (v * 2)) & 0b11 on u8
palette_convert(v, p) == BitAnd(Shr(p, v * 2), 3)

\* (faulty variant: the signed tile number is added as an unsigned one)
tile_index_unsigned(char_, row, signed) ==
    LET index == IF signed THEN 256 + char_ ELSE char_
    IN IF row >= 8 THEN index + 1 ELSE index

\* the index into self.tiles that read_char_row_at uses
tile_index(char_, row, signed) ==
    LET index == IF signed
                 THEN 256 + (IF char_ >= 128 THEN char_ - 256 ELSE char_)
                 ELSE char_
    IN IF row >= 8 THEN index + 1 ELSE index

read_char_row_at(l, char_, row, signed) ==
    read_row(l, tile_index(char_, row, signed), IF row >= 8 THEN row - 8 ELSE row)

\* the tile number render_tile_row reads from the code area for a pixel
char_at(l, translated_x, translated_y, code_dat_start) ==
    LET char_y_offset == (translated_y \div 8) * 32
        char_offset == (translated_x \div 8) + char_y_offset
        char_addr == AddrAdd(code_dat_start, char_offset)
    IN Lcd_read(l, char_addr).v

\* the indices into self.tiles that one render_tile_row call uses
tile_row_indices(l, screen_y, scx, scy, code_dat_start) ==
    LET translated_y == (screen_y + scy) % 256 IN
    {tile_index(char_at(l, (screen_x + scx) % 256, translated_y, code_dat_start),
                translated_y % 8, get_bg_char_addr_start(l)) :
        screen_x \in 0..(SCREEN_W - 1)}

render_tile_row(l, screen_y, scx, scy, code_dat_start) ==
    LET translated_y == (screen_y + scy) % 256 IN
    [screen_x \in 0..(SCREEN_W - 1) |->
        LET translated_x == (screen_x + scx) % 256
            char_ == char_at(l, translated_x, translated_y, code_dat_start)
            signed == get_bg_char_addr_start(l)
            char_row == read_char_row_at(l, char_, translated_y % 8, signed)
            color_index == char_row[translated_x % 8]
        IN palette_convert(color_index, l.bgp)]

\* framebuffer fb with row[x] stored at (y, x) for every x in xs
WriteRow(fb, y, xs, row) ==
    LET keep == {p \in DOMAIN fb : ~(p[1] = y /\ p[2] \in xs)}
        add == {<<y, x>> : x \in {x \in xs : row[x] # COLOR_WHITE}}
    IN [p \in keep \cup add |-> IF p \in add THEN row[p[2]] ELSE fb[p]]

render_background_row(l) ==
    IF ~is_bg_enabled(l) THEN l
    ELSE LET row == render_tile_row(l, l.ly, l.sx, l.sy, get_bg_code_dat_start(l))
             b == get_back_framebuffer(l)
         IN [l EXCEPT !.fbs[b] = WriteRow(@, l.ly, 0..(SCREEN_W - 1), row)]

render_window_row(l) ==
    IF ~is_window_enabled(l) THEN l
    ELSE LET adjusted_wx == Max(l.wx, 7) - 7 IN
         IF l.wy > l.ly \/ adjusted_wx >= SCREEN_W THEN l
         ELSE LET translated_y == l.ly - l.wy
                  row == render_tile_row(l, translated_y, 0, 0,
                                         get_window_code_dat_start(l))
                  b == get_back_framebuffer(l)
              IN [l EXCEPT !.fbs[b] =
                     WriteRow(@, l.ly, adjusted_wx..(SCREEN_W - 1), row)]

\* the rows y of a sprite that render_oam_row draws on the current line
obj_rows(l, obj) ==
    LET hi_y == IF BitAnd(l.lcdc, OAM_TALL_FLAG) # 0 THEN 16 ELSE 8 IN
    {y \in 0..(hi_y - 1) :
        LET full_y == y + obj.y - 16 IN
        ~(full_y > SCREEN_H \/ full_y < 0 \/ full_y # l.ly)}

\* the indices into self.tiles that render_oam_row uses for a sprite
obj_indices(l, obj) ==
    LET tall == BitAnd(l.lcdc, OAM_TALL_FLAG) # 0
        char_ == IF tall THEN BitAnd(obj.char_, 254) ELSE obj.char_
        hi_y == IF tall THEN 16 ELSE 8
    IN {tile_index(char_, IF Obj_yflip(obj) THEN hi_y - 1 - y ELSE y, FALSE) :
           y \in obj_rows(l, obj)}

\* the indices into self.tiles that do_hblank_start uses on the current line
render_indices(l) ==
    (IF is_bg_enabled(l)
     THEN tile_row_indices(l, l.ly, l.sx, l.sy, get_bg_code_dat_start(l))
     ELSE {})
    \cup (IF is_window_enabled(l) /\ ~(l.wy > l.ly \/ Max(l.wx, 7) - 7 >= SCREEN_W)
          THEN tile_row_indices(l, l.ly - l.wy, 0, 0, get_window_code_dat_start(l))
          ELSE {})
    \cup (IF is_oam_enabled(l)
          THEN UNION {obj_indices(l, Get(l.objs, i, Obj_default)) :
                         i \in 0..(OBJ_COUNT - 1)}
          ELSE {})

\* (faulty variant: the column one past the right edge is drawn)
render_obj_wide(l, fb, obj) ==
    LET tall == BitAnd(l.lcdc, OAM_TALL_FLAG) # 0
        char_ == IF tall THEN BitAnd(obj.char_, 254) ELSE obj.char_
        hi_y == IF tall THEN 16 ELSE 8
        ys == obj_rows(l, obj)
    IN IF ys = {} THEN fb
       ELSE LET y == CHOOSE y \in ys : TRUE
                full_y == y + obj.y - 16
                index_y == IF Obj_yflip(obj) THEN hi_y - 1 - y ELSE y
                row == read_char_row_at(l, char_, index_y, FALSE)
                index_x(x) == IF Obj_xflip(obj) THEN 7 - x ELSE x
                palv == IF Obj_high_palette(obj) THEN l.obp1 ELSE l.obp0
                drawn == {x \in 0..7 :
                            LET full_x == x + obj.x - 8 IN
                            /\ ~(full_x > SCREEN_W \/ full_x < 0)
                            /\ row[index_x(x)] # 0
                            /\ \/ ~Obj_priority(obj)
                               \/ Get(fb, <<full_y, full_x>>, COLOR_WHITE) = COLOR_WHITE}
                xs == {x + obj.x - 8 : x \in drawn}
                color == [fx \in xs |->
                            palette_convert(row[index_x(fx - obj.x + 8)], palv)]
            IN WriteRow(fb, full_y, xs, color)

\* one sprite of render_oam_row drawn into framebuffer fb
render_obj(l, fb, obj) ==
    LET tall == BitAnd(l.lcdc, OAM_TALL_FLAG) # 0
        char_ == IF tall THEN BitAnd(obj.char_, 254) ELSE obj.char_
        hi_y == IF tall THEN 16 ELSE 8
        ys == obj_rows(l, obj)
    IN IF ys = {} THEN fb
       ELSE LET y == CHOOSE y \in ys : TRUE
                full_y == y + obj.y - 16
                index_y == IF Obj_yflip(obj) THEN hi_y - 1 - y ELSE y
                row == read_char_row_at(l, char_, index_y, FALSE)
                index_x(x) == IF Obj_xflip(obj) THEN 7 - x ELSE x
                palv == IF Obj_high_palette(obj) THEN l.obp1 ELSE l.obp0
                drawn == {x \in 0..7 :
                            LET full_x == x + obj.x - 8 IN
                            /\ ~(full_x >= SCREEN_W \/ full_x < 0)
                            /\ row[index_x(x)] # 0
                            /\ \/ ~Obj_priority(obj)
                               \/ Get(fb, <<full_y, full_x>>, COLOR_WHITE) = COLOR_WHITE}
                xs == {x + obj.x - 8 : x \in drawn}
                color == [fx \in xs |->
                            palette_convert(row[index_x(fx - obj.x + 8)], palv)]
            IN WriteRow(fb, full_y, xs, color)

render_oam_row(l) ==
    IF ~is_oam_enabled(l) THEN l
    ELSE LET b == get_back_framebuffer(l)
             RECURSIVE go(_, _)
             go(i, fb) == IF i = OBJ_COUNT THEN fb
                          ELSE go(i + 1, render_obj(l, fb, Get(l.objs, i, Obj_default)))
         IN [l EXCEPT !.fbs[b] = go(0, l.fbs[b])]

should_render_this_frame(l, cycle) ==
    \/ cycle >= l.running_until_cycle
    \/ l.running_until_cycle - cycle <= 2 * SCREEN_CYCLE_TIME

---------------------------------------------------------------------------
(* Lcd: timer edges                                                        *)

\* (faulty variant: the match flag is set and never cleared)
update_lyc_sticky(l) ==
    IF l.ly = l.lyc
    THEN [l EXCEPT !.stat = BitOr(@, LYC_MATCH_FLAG)]
    ELSE l

update_lyc(l) ==
    IF l.ly = l.lyc
    THEN [l EXCEPT !.stat = BitOr(@, LYC_MATCH_FLAG)]
    ELSE [l EXCEPT !.stat = BitClear(@, LYC_MATCH_FLAG)]

\* self.ly += 1 on a u8
IncLy(l) == [l EXCEPT !.ly = (@ + 1) % 256]

do_hblank_start(l, cycle) ==
    IF l.ly < SCREEN_H
    THEN SetMode(IF should_render_this_frame(l, cycle)
                 THEN render_oam_row(render_window_row(render_background_row(l)))
                 ELSE l,
                 MODE_00_MASK)
    ELSE l

do_hblank_end(l) == update_lyc(IncLy(l))

do_vblank_start(l) == SetMode(update_lyc(IncLy(swap(l))), MODE_01_MASK)

do_vblank_end(l) == SetMode(update_lyc([l EXCEPT !.ly = 0]), MODE_00_MASK)

\* the hblank_timer match of pump_cycle: the Lcd afterwards and the
\* interrupt returned from inside the match, "None" when it falls through
ReturnIf(l1, cond) == [lcd |-> l1, int |-> IF cond THEN "LCDC" ELSE "None"]

\* if self.is_hblank_int_enabled() && self.ly < SCREEN_SIZE.1 { return Some(LCDC) }
HblankStarted(l1) == ReturnIf(l1, is_hblank_int_enabled(l1) /\ l1.ly < SCREEN_H)

\* if self.ly == self.lyc && self.is_lyc_int_enabled() { return Some(LCDC) }
LyChanged(l1) == ReturnIf(l1, l1.ly = l1.lyc /\ is_lyc_int_enabled(l1))

\* if self.is_mode_10_int_enabled() { return Some(LCDC) }
Mode10Started(l1) == ReturnIf(l1, is_mode_10_int_enabled(l1))

\* (faulty variant: a skipped scanline raises no hblank interrupt)
PumpHblank_quiet(l, cycle) ==
    LET u == Timer_update(l.hblank_timer, cycle) IN
    IF u.ev = "RisingEdge"
    THEN IF should_render_this_frame(l, cycle)
         THEN HblankStarted(do_hblank_start([l EXCEPT !.hblank_timer = u.timer], cycle))
         ELSE [lcd |-> do_hblank_start([l EXCEPT !.hblank_timer = u.timer], cycle),
               int |-> "None"]
    ELSE IF u.ev = "FallingEdge"
    THEN LyChanged(do_hblank_end([l EXCEPT !.hblank_timer = u.timer]))
    ELSE [lcd |-> l, int |-> "None"]

PumpHblank(l, cycle) ==
    LET u == Timer_update(l.hblank_timer, cycle) IN
    IF u.ev = "RisingEdge"
    THEN HblankStarted(do_hblank_start([l EXCEPT !.hblank_timer = u.timer], cycle))
    ELSE IF u.ev = "FallingEdge"
    THEN LyChanged(do_hblank_end([l EXCEPT !.hblank_timer = u.timer]))
    ELSE [lcd |-> l, int |-> "None"]

\* the mode10_timer match of pump_cycle
PumpMode10(l, cycle) ==
    LET u == Timer_update(l.mode10_timer, cycle) IN
    IF u.ev = "RisingEdge"
    THEN Mode10Started(SetMode([l EXCEPT !.mode10_timer = u.timer], MODE_10_MASK))
    ELSE IF u.ev = "FallingEdge"
    THEN [lcd |-> SetMode([l EXCEPT !.mode10_timer = u.timer], MODE_00_MASK),
          int |-> "None"]
    ELSE [lcd |-> l, int |-> "None"]

\* (faulty variant: the VBlank interrupt is gated by STAT bit 4 like the LCDC ones)
PumpVblank_gated(l, cycle) ==
    LET u == Timer_update(l.vblank_timer, cycle) IN
    IF u.ev = "RisingEdge"
    THEN [lcd |-> do_vblank_start([l EXCEPT !.vblank_timer = u.timer]),
          int |-> IF BitAnd(l.stat, 16) # 0 THEN "VBlank" ELSE "None"]
    ELSE IF u.ev = "FallingEdge"
    THEN LyChanged(do_vblank_end([l EXCEPT !.vblank_timer = u.timer]))
    ELSE [lcd |-> l, int |-> "None"]

\* the vblank_timer match of pump_cycle
PumpVblank(l, cycle) ==
    LET u == Timer_update(l.vblank_timer, cycle) IN
    IF u.ev = "RisingEdge"
    THEN [lcd |-> do_vblank_start([l EXCEPT !.vblank_timer = u.timer]),
          int |-> "VBlank"]
    ELSE IF u.ev = "FallingEdge"
    THEN LyChanged(do_vblank_end([l EXCEPT !.vblank_timer = u.timer]))
    ELSE [lcd |-> l, int |-> "None"]

\* pump_cycle: the three matches in order, a return inside one of them
\* skipping the ones after it
AfterMode10(m, cycle) ==
    IF m.int # "None" THEN m ELSE PumpVblank(m.lcd, cycle)

AfterHblank(h, cycle) ==
    IF h.int # "None" THEN h ELSE AfterMode10(PumpMode10(h.lcd, cycle), cycle)

pump_cycle(l, cycle) == AfterHblank(PumpHblank(l, cycle), cycle)

---------------------------------------------------------------------------
(* Mbc0: a cartridge without banking (mbc/mbc0.rs)                         *)

\* ranges of the memory map the cartridge answers for (first, last)
RNG_ROM_BANK1 == <<16384, 32767>>
RNG_EXT_RAM == <<40960, 49151>>
\* RNG_EXT_RAM.len()
ExtRamLen == RNG_EXT_RAM[2] - RNG_EXT_RAM[1] + 1

\* rom is the Vec<u8>: its length and its bytes; ram is a zeroed Ram
Mbc0_new(rom) == [rom |-> rom, ram |-> EmptyMap]

\* Ok(v), Err(BusError), or a panic on an index past the end of the Vec
Mbc0_read(mb, a) ==
    IF in_(a, RNG_ROM_BANK1)
    THEN IF a < mb.rom.len
         THEN [ok |-> TRUE, v |-> Get(mb.rom.bytes, a, 0), panic |-> FALSE]
         ELSE [ok |-> FALSE, v |-> 0, panic |-> TRUE]
    ELSE IF in_(a, RNG_EXT_RAM)
    THEN [ok |-> TRUE, v |-> Get(mb.ram, a - RNG_EXT_RAM[1], 0), panic |-> FALSE]
    ELSE [ok |-> FALSE, v |-> 0, panic |-> FALSE]

\* (faulty variant: a write outside external RAM is accepted and dropped)
Mbc0_write_dropped(mb, a, v) ==
    IF in_(a, RNG_EXT_RAM)
    THEN [ok |-> TRUE, mbc |-> [mb EXCEPT !.ram = Put(@, a - RNG_EXT_RAM[1], v, 0)]]
    ELSE [ok |-> TRUE, mbc |-> mb]

Mbc0_write(mb, a, v) ==
    IF in_(a, RNG_EXT_RAM)
    THEN [ok |-> TRUE, mbc |-> [mb EXCEPT !.ram = Put(@, a - RNG_EXT_RAM[1], v, 0)]]
    ELSE [ok |-> FALSE, mbc |-> mb]

map_address_into_rom(mb, a) == a

\* the slice handed out: its length and its bytes
get_sram(mb) == [len |-> ExtRamLen, bytes |-> mb.ram]

\* (faulty variant: the last byte of the buffer is not copied)
set_sram_short(mb, buf) ==
    [mb EXCEPT !.ram =
        [i \in {j \in DOMAIN mb.ram : j >= buf.len - 1}
              \cup {j \in DOMAIN buf.bytes : j < buf.len - 1} |->
            IF i < buf.len - 1 THEN buf.bytes[i] ELSE mb.ram[i]]]

\* self.ram.data[..buf.len()].clone_from_slice(buf)
set_sram(mb, buf) ==
    [mb EXCEPT !.ram =
        [i \in {j \in DOMAIN mb.ram : j >= buf.len}
              \cup {j \in DOMAIN buf.bytes : j < buf.len} |->
            IF i < buf.len THEN buf.bytes[i] ELSE mb.ram[i]]]

\* a 32 KiB image with a byte set in each half and at the last address
RomImage == [len |-> 32768, bytes |-> (256 :> 195) @@ (16384 :> 17) @@ (32767 :> 34)]

---------------------------------------------------------------------------
(* SquareChannel (audio/square.rs)                                         *)

\* rows are duty patterns 0..3, columns duty steps 0..7
DUTY_VALUES ==
    << <<-1, -1, -1, -1, -1, -1, -1,  1>>,
       << 1, -1, -1, -1, -1, -1, -1,  1>>,
       << 1, -1, -1, -1, -1,  1,  1,  1>>,
       <<-1,  1,  1,  1,  1,  1,  1, -1>> >>

Square_new ==
    [period |-> 0, duty_cycle |-> 0, use_len |-> FALSE, len |-> 0,
     last_cpu_cycle |-> 0,
     duty_cycle_step |-> 0,
     duty_cycle_step_timer |-> Timer_new(1, 0, 0),
     duty_cycle_step_timer_offset |-> 0,
     vol |-> 0, vol_orig |-> 0, vol_env_increment |-> FALSE,
     vol_counter |-> Clock_new(0),
     frequency |-> 0, frequency_shift |-> 0, frequency_increment |-> FALSE,
     frequency_sweep_counter |-> Clock_new(0)]

Square_reset(q) ==
    [q EXCEPT !.frequency_sweep_counter = Clock_reset(@),
              !.vol_counter = Clock_reset(@),
              !.len = IF @ = 0 THEN 64 ELSE @,
              !.vol = q.vol_orig]

set_volume(q, vol) == [q EXCEPT !.vol = vol, !.vol_orig = vol]

set_vol_env_period(q, p) == [q EXCEPT !.vol_counter = Clock_new(p)]

increment_vol_env(q, inc) == [q EXCEPT !.vol_env_increment = inc]

set_freqeuncy_sweepers(q, freqeuncy_period, freqeuncy_shift, freqeuncy_increment) ==
    [q EXCEPT !.frequency_sweep_counter = Clock_new(freqeuncy_period),
              !.frequency_shift = freqeuncy_shift,
              !.frequency_increment = freqeuncy_increment]

update_from_frequency(q) ==
    IF q.frequency <= 2048
    THEN [q EXCEPT !.period = 4 * (2048 - q.frequency),
                   !.duty_cycle_step_timer = Timer_new(4 * (2048 - q.frequency), 0, 0),
                   !.duty_cycle_step_timer_offset = q.last_cpu_cycle]
    ELSE q

\* the frequency a firing sweep tick computes
\* (faulty variant: the sum is not clamped)
SweptFrequency_unclamped(q) ==
    IF q.frequency_increment
    THEN q.frequency + Shr(q.frequency, q.frequency_shift)
    ELSE IF q.frequency_shift # 0
    THEN q.frequency - Shr(q.frequency, q.frequency_shift)
    ELSE q.frequency

SweptFrequency(q) ==
    IF q.frequency_increment
    THEN Min(q.frequency + Shr(q.frequency, q.frequency_shift), 2049)
    ELSE IF q.frequency_shift # 0
            /\ q.frequency >= Shr(q.frequency, q.frequency_shift)
    THEN q.frequency - Shr(q.frequency, q.frequency_shift)
    ELSE q.frequency

\* the sweep counter is ticked and fires
SweepFires(q) ==
    /\ q.frequency_sweep_counter.period # 0
    /\ Clock_tick(q.frequency_sweep_counter).fired

freq_sweep_update(q) ==
    IF q.frequency_sweep_counter.period = 0 THEN q
    ELSE IF SweepFires(q)
    THEN update_from_frequency(
            [q EXCEPT !.frequency_sweep_counter = Clock_tick(@).clock,
                      !.frequency = SweptFrequency(q)])
    ELSE [q EXCEPT !.frequency_sweep_counter = Clock_tick(@).clock]

set_frequency_from_bits(q, hi_, lo_) ==
    update_from_frequency([q EXCEPT !.frequency = BitAnd(hi_, 7) * 256 + lo_])

set_duty_cycle(q, duty_cycle) == [q EXCEPT !.duty_cycle = duty_cycle]

decrement_length(q) == [q EXCEPT !.len = IF @ > 0 THEN @ - 1 ELSE @]

update_length(q, len) == [q EXCEPT !.len = 64 - len]

use_length_counter(q, use_len) == [q EXCEPT !.use_len = use_len]

volume_env_update(q) ==
    IF q.vol_counter.period = 0 THEN q
    ELSE IF Clock_tick(q.vol_counter).fired
    THEN [q EXCEPT !.vol_counter = Clock_tick(@).clock,
                   !.vol = IF q.vol_env_increment /\ @ < 15 THEN @ + 1
                           ELSE IF @ # 0 THEN @ - 1
                           ELSE @]
    ELSE [q EXCEPT !.vol_counter = Clock_tick(@).clock]

is_active(q) == ~q.use_len \/ q.len > 0

\* while self.duty_cycle_step_timer.update(elapsed).is_some() { step += 1 % 8 }
RECURSIVE StepWhileDue(_, _, _)
StepWhileDue(timer, step, elapsed) ==
    IF Timer_update(timer, elapsed).ev = "None"
    THEN [timer |-> timer, step |-> step]
    ELSE StepWhileDue(Timer_update(timer, elapsed).timer, (step + 1) % 8, elapsed)

\* the sample, in fifteenths: DUTY_VALUES[duty][step] * (vol / 15.0)
Level(q) == DUTY_VALUES[q.duty_cycle + 1][q.duty_cycle_step + 1] * q.vol

Stepped(q, cpu_cycle, r) ==
    [q EXCEPT !.last_cpu_cycle = cpu_cycle,
              !.duty_cycle_step_timer = r.timer,
              !.duty_cycle_step = r.step]

\* (faulty variant: the cycle is recorded before the channel is found silent)
sample_marked(q, cpu_cycle) ==
    IF q.period = 0 \/ q.frequency > 2048 \/ ~is_active(q)
    THEN [sq |-> [q EXCEPT !.last_cpu_cycle = cpu_cycle], out |-> 0]
    ELSE [sq |-> Stepped(q, cpu_cycle,
                    StepWhileDue(q.duty_cycle_step_timer, q.duty_cycle_step,
                                 cpu_cycle - q.duty_cycle_step_timer_offset)),
          out |-> Level(Stepped(q, cpu_cycle,
                    StepWhileDue(q.duty_cycle_step_timer, q.duty_cycle_step,
                                 cpu_cycle - q.duty_cycle_step_timer_offset)))]

\* (faulty variant: the step is advanced once before the timer is asked)
sample_eager(q, cpu_cycle) ==
    IF q.period = 0 \/ q.frequency > 2048 \/ ~is_active(q)
    THEN [sq |-> q, out |-> 0]
    ELSE [sq |-> Stepped(q, cpu_cycle,
                    StepWhileDue(q.duty_cycle_step_timer, (q.duty_cycle_step + 1) % 8,
                                 cpu_cycle - q.duty_cycle_step_timer_offset)),
          out |-> Level(Stepped(q, cpu_cycle,
                    StepWhileDue(q.duty_cycle_step_timer, (q.duty_cycle_step + 1) % 8,
                                 cpu_cycle - q.duty_cycle_step_timer_offset)))]

\* (faulty variant: at most one due step is taken per call)
sample_single(q, cpu_cycle) ==
    IF q.period = 0 \/ q.frequency > 2048 \/ ~is_active(q)
    THEN [sq |-> q, out |-> 0]
    ELSE IF Timer_update(q.duty_cycle_step_timer,
                         cpu_cycle - q.duty_cycle_step_timer_offset).ev = "None"
    THEN [sq |-> [q EXCEPT !.last_cpu_cycle = cpu_cycle], out |-> Level(q)]
    ELSE [sq |-> Stepped(q, cpu_cycle,
                    [timer |-> Timer_update(q.duty_cycle_step_timer,
                                   cpu_cycle - q.duty_cycle_step_timer_offset).timer,
                     step |-> (q.duty_cycle_step + 1) % 8]),
          out |-> Level(Stepped(q, cpu_cycle,
                    [timer |-> Timer_update(q.duty_cycle_step_timer,
                                   cpu_cycle - q.duty_cycle_step_timer_offset).timer,
                     step |-> (q.duty_cycle_step + 1) % 8]))]

\* cpu_cycle is at or after the offset: the callers pass the Cpu's cycle count
sample(q, cpu_cycle) ==
    IF q.period = 0 \/ q.frequency > 2048 \/ ~is_active(q)
    THEN [sq |-> q, out |-> 0]
    ELSE [sq |-> Stepped(q, cpu_cycle,
                    StepWhileDue(q.duty_cycle_step_timer, q.duty_cycle_step,
                                 cpu_cycle - q.duty_cycle_step_timer_offset)),
          out |-> Level(Stepped(q, cpu_cycle,
                    StepWhileDue(q.duty_cycle_step_timer, q.duty_cycle_step,
                                 cpu_cycle - q.duty_cycle_step_timer_offset)))]

AudInit ==
    [op |-> "new",
     now |-> 0,             \* the cycle of the latest sample call
     out |-> 0,             \* what it returned, in fifteenths
     silent |-> FALSE,      \* it found the channel silent
     again |-> FALSE,       \* it repeated the call before it
     same |-> TRUE,         \* it left the channel as it found it
     prev_out |-> 0,        \* what the call before it returned
     step_at_set |-> 0,     \* the duty step when the timer was last restarted
     chunks |-> 0,          \* sample calls since then that advanced the step
     tuned |-> FALSE,       \* the period has been derived from the frequency
     ops |-> 0]             \* configuration calls so far

HostInit ==
    [op |-> "new", a |-> 0, v |-> 0, ok |-> TRUE, panic |-> FALSE,
     has_snap |-> FALSE,
     snap |-> [len |-> 0, bytes |-> EmptyMap],   \* the copy of get_sram()
     snap_reads |-> EmptyMap,                    \* reads when it was taken
     restored_over |-> FALSE]    \* set_sram replaced RAM that had changed since

InitUnits ==
    /\ mbc = Mbc0_new(RomImage)
    /\ host = HostInit
    /\ sq = Square_new
    /\ aud = AudInit
    /\ twin = [lcd |-> Lcd_new, int |-> "None"]

---------------------------------------------------------------------------
(* State after construction                                                *)

Cpu_new ==
    [registers |-> [r \in {"A", "B", "C", "D", "E", "H", "L", "F"} |-> 0],
     sp |-> 65534,
     pc |-> 256,
     cycle |-> 0,
     interrupt_master_enable |-> FALSE,
     halted |-> FALSE]

Mmu_new(rom) == [rom |-> rom, ram |-> EmptyMap, interrupt_enable |-> 0]

\* the cartridge: a ROM whose interrupt table holds the word 0x0150 at
\* 0x0040 and at 0x0048, zero elsewhere
RomChoices ==
    {[a \in {64, 65, 72, 73} |-> IF a % 2 = 0 THEN 80 ELSE 1]}

ObsInit ==
    [op |-> "new",          \* the operation the last step performed
     cycle |-> 0,           \* the cycle last passed to pump_cycle
     int |-> "None",        \* what the last pump_cycle returned
     pumps |-> 0,           \* pump_cycle calls so far
     vblanks |-> 0,         \* pump_cycle calls that returned VBlank
     coarse |-> 0,          \* coarse pump_cycle calls so far
     due |-> {},            \* timers with an edge due when pump_cycle was called
     icount |-> 0,          \* instructions fetched so far
     ins |-> "None",        \* the last instruction fetched
     direct |-> 0,          \* run_cycle calls made by the host itself
     calls |-> 0,           \* run_for_duration calls so far
     err |-> FALSE,         \* the last run_cycle returned Err
     ran_to |-> 0,          \* the cycle counter when the last run_cycle returned
     serviced |-> 0,        \* interrupts serviced so far
     svc |-> FALSE,         \* the last step serviced an interrupt
     svc_int |-> "None",    \* ... which one
     svc_pc |-> 0,          \* ... pc when it was taken
     svc_sp |-> 0,          \* ... sp when it was taken
     svc_armed |-> TRUE,    \* ... an Ei had executed since the service before
     ei_since |-> FALSE,    \* an Ei has executed since the last service
     pending |-> {}]        \* interrupts a peripheral returned, not serviced since

InitWith(rom) ==
    /\ cpu = Cpu_new
    /\ mmu = Mmu_new(rom)
    /\ lcd = Lcd_new
    /\ rfd = [active |-> FALSE, stop_at_cycle |-> 0, cycles_to_run |-> 0]
    /\ obs = ObsInit
    /\ pal = [v |-> 0, p |-> 0, out |-> 0, done |-> FALSE]
    /\ InitUnits

---------------------------------------------------------------------------
(* The Lcd driven directly: pump_cycle and register writes                 *)

\* timers of l with an edge at or before cycle
DueTimers(l, cycle) ==
    {n \in {"hblank_timer", "mode10_timer", "vblank_timer"} :
        Timer_next(l[n]) <= cycle}

\* the history after a pump_cycle(cycle) call on l that returned int
ObsPump(o, l, cycle, int) ==
    [o EXCEPT !.cycle = cycle,
              !.int = int,
              !.pumps = @ + 1,
              !.vblanks = IF int = "VBlank" THEN @ + 1 ELSE @,
              !.due = DueTimers(l, cycle)]

\* one pump_cycle(cycle) call by the owner of the Lcd
Pumped(r, cycle, kind) ==
    /\ lcd' = r.lcd
    /\ obs' = [ObsPump(obs, lcd, cycle, r.int) EXCEPT
                  !.op = kind,
                  !.coarse = IF kind = "pump_coarse" THEN @ + 1 ELSE @]

DoPump(cycle, kind) == Pumped(pump_cycle(lcd, cycle), cycle, kind)

\* values a program stores into STAT and LYC
StatValues == {0, 8, 96}
LycValues == {0, 2}

\* the caller pumps the Lcd at the cycle of its next timer edge
LcdPumpEdge ==
    LET c == Max(get_next_event_cycle(lcd), obs.cycle) IN
    /\ c <= MaxFrames * SCREEN_CYCLE_TIME + LINE_CYCLE_TIME
    /\ DoPump(c, "pump")
    /\ UNCHANGED <<cpu, mmu, rfd, pal, units>>

\* a write to STAT or LYC between two pump_cycle calls
LcdWriteReg ==
    \E a \in {REG_STAT, REG_LYC} :
    \E v \in (IF a = REG_STAT THEN StatValues ELSE LycValues) :
        LET w == Lcd_write(lcd, a, v) IN
        /\ w.lcd # lcd
        /\ lcd' = w.lcd
        /\ obs' = [obs EXCEPT !.op = "write"]
        /\ UNCHANGED <<cpu, mmu, rfd, pal, units>>

\* video memory and palette writes a program makes before the first scanline
SetupWrites ==
    {<<REG_BGP, 228>>,        \* identity palette
     <<36864, 128>>,          \* tile 256, row 0, low plane: leftmost pixel
     <<REG_LCDC, 147>>}       \* unsigned tile numbering

LcdSetup ==
    \E w \in SetupWrites :
        LET r == Lcd_write(lcd, w[1], w[2]) IN
        /\ obs.pumps = 0
        /\ r.lcd # lcd
        /\ lcd' = r.lcd
        /\ obs' = [obs EXCEPT !.op = "write"]
        /\ UNCHANGED <<cpu, mmu, rfd, pal, units>>

InitLcd == InitWith(EmptyMap)

\* the Lcd pumped through every timer edge while STAT and LYC are written
NextLcd == LcdPumpEdge \/ LcdWriteReg

SpecLcd == InitLcd /\ [][NextLcd]_vars

\* the Lcd pumped through every timer edge over prepared video memory
NextLcdRender == LcdPumpEdge \/ LcdSetup

SpecLcdRender == InitLcd /\ [][NextLcdRender]_vars

\* strides of a caller that does not pump at every edge
Strides == {MODE_10_DURATION, HBLANK_DURATION, LINE_CYCLE_TIME}

LcdPumpCoarse ==
    \E d \in Strides :
        /\ obs.coarse < MaxCoarse
        /\ DoPump(obs.cycle + d, "pump_coarse")
        /\ UNCHANGED <<cpu, mmu, rfd, pal, units>>

\* the Lcd pumped at cycles of the caller's choosing
NextLcdCoarse == LcdPumpCoarse \/ LcdWriteReg

SpecLcdCoarse == InitLcd /\ [][NextLcdCoarse]_vars

\* values a program stores into LY
LyValues == {0, 77}

\* a write to LY between two pump_cycle calls
LcdWriteLy ==
    \E v \in LyValues :
        /\ lcd' = Lcd_write(lcd, REG_LY, v).lcd
        /\ obs' = [obs EXCEPT !.op = "write_ly",
                              !.err = ~Lcd_write(lcd, REG_LY, v).ok]
        /\ UNCHANGED <<cpu, mmu, rfd, pal, units>>

NextLcdLy == LcdPumpCoarse \/ LcdWriteLy

SpecLcdLy == InitLcd /\ [][NextLcdLy]_vars

---------------------------------------------------------------------------
(* The Lcd as a memory device: writes into tile data and into OAM          *)

\* tile data addresses: both bytes of tile 0 row 0, a row of tile 1, and
\* the two last bytes of tile 383
TileAddrs == {32768, 32769, 32786, 38910, 38911}
TileValues == {0, 60, 126}

LcdWriteTile ==
    \E a \in TileAddrs : \E v \in TileValues :
        LET w == Lcd_write(lcd, a, v) IN
        /\ w.ok
        /\ lcd' = w.lcd
        /\ obs' = [obs EXCEPT !.op = "write_tile"]
        /\ UNCHANGED <<cpu, mmu, rfd, pal, units>>

NextLcdTiles == LcdWriteTile

SpecLcdTiles == InitLcd /\ [][NextLcdTiles]_vars

\* OAM addresses: bytes of sprites 0 and 1 and the last byte of sprite 39
OamAddrs == {65024, 65027, 65029, 65030, 65183}
OamValues == {0, 16, 144}

LcdWriteOam ==
    \E a \in OamAddrs : \E v \in OamValues :
        LET w == Lcd_write(lcd, a, v) IN
        /\ w.ok
        /\ lcd' = w.lcd
        /\ obs' = [obs EXCEPT !.op = "write_oam"]
        /\ UNCHANGED <<cpu, mmu, rfd, pal, units>>

NextLcdOam == LcdWriteOam

SpecLcdOam == InitLcd /\ [][NextLcdOam]_vars

---------------------------------------------------------------------------
(* Sprite 0 placed by a program and rendered through the first frame       *)

\* the Lcd after the writes of ws, made in order
RECURSIVE WriteAll(_, _)
WriteAll(l, ws) ==
    IF ws = << >> THEN l
    ELSE WriteAll(Lcd_write(l, Head(ws)[1], Head(ws)[2]).lcd, Tail(ws))

\* LCDC with the LCD and sprites on, background and window off, and
\* sprites 8 or 16 rows high
SpriteLcdc == {130, 134}

\* a program's video setup: row 0 of tile 0 solid, identity sprite palette
SpriteSetup ==
    \E c \in SpriteLcdc :
        /\ obs.pumps = 0
        /\ lcd.lcdc \notin SpriteLcdc
        /\ lcd' = WriteAll(lcd, <<<<RNG_CHAR_DAT[1], 255>>, <<REG_OBP0, 228>>,
                                  <<REG_LCDC, c>>>>)
        /\ obs' = [obs EXCEPT !.op = "write"]
        /\ UNCHANGED <<cpu, mmu, rfd, pal, units>>

\* y, x and flags bytes of sprite 0, and the values a program stores there
SpriteBytes ==
    [a \in {RNG_LCD_OAM[1], RNG_LCD_OAM[1] + 1, RNG_LCD_OAM[1] + 3} |->
        IF a = RNG_LCD_OAM[1] THEN {16, 160}
        ELSE IF a = RNG_LCD_OAM[1] + 1 THEN {8, 168}
        ELSE {240}]

SpritePlace ==
    \E a \in DOMAIN SpriteBytes : \E v \in SpriteBytes[a] :
        LET w == Lcd_write(lcd, a, v) IN
        /\ obs.pumps = 0
        /\ w.lcd # lcd
        /\ lcd' = w.lcd
        /\ obs' = [obs EXCEPT !.op = "write_oam"]
        /\ UNCHANGED <<cpu, mmu, rfd, pal, units>>

\* the caller pumps the Lcd at each timer edge of the first frame
SpritePump ==
    LET c == Max(get_next_event_cycle(lcd), obs.cycle) IN
    /\ c <= SCREEN_CYCLE_TIME
    /\ DoPump(c, "pump")
    /\ UNCHANGED <<cpu, mmu, rfd, pal, units>>

NextLcdSprites == SpriteSetup \/ SpritePlace \/ SpritePump

SpecLcdSprites == InitLcd /\ [][NextLcdSprites]_vars

---------------------------------------------------------------------------
(* The Lcd pumped through every timer edge while LYC is compared           *)

\* values a program stores into STAT (nothing, the match flag itself, the
\* LYC interrupt enable) and into LYC (line 0, a visible line, and the line
\* that the vblank rising edge steps to)
LycStatValues == {0, LYC_MATCH_FLAG, LYC_MATCH_INT_FLAG}
LycLines == {0, 2, 145}

LycWrite ==
    \E a \in {REG_STAT, REG_LYC} :
    \E v \in (IF a = REG_STAT THEN LycStatValues ELSE LycLines) :
        LET w == Lcd_write(lcd, a, v) IN
        /\ w.lcd # lcd
        /\ lcd' = w.lcd
        /\ obs' = [obs EXCEPT !.op = "write"]
        /\ UNCHANGED <<cpu, mmu, rfd, pal, units>>

NextLcdLyc == LcdPumpEdge \/ LycWrite

SpecLcdLyc == InitLcd /\ [][NextLcdLyc]_vars

---------------------------------------------------------------------------
(* Scanlines rendered over video memory filled to the edges                *)

\* what a program writes before the first scanline.  First: signed tile
\* numbering with tile numbers 127 and 128 in the code areas, a window from
\* line 1, and a 16-row sprite, flipped, whose last pixel is the bottom
\* right corner.  Second: unsigned numbering with tile number 255, a window
\* of one pixel, and a 16-row sprite whose last pixel is the top left
\* corner.  Third: a window off the screen and an 8-row sprite with every
\* flag set in the bottom right corner.
EdgeSetups ==
    {<<<<REG_LCDC, 231>>, <<REG_BGP, 228>>, <<REG_OBP0, 228>>,
       <<REG_SCY, 7>>, <<REG_SCX, 255>>, <<REG_WX, 7>>, <<REG_WY, 1>>,
       <<38912, 127>>, <<39936, 128>>, <<38910, 255>>, <<36862, 255>>,
       <<65024, 159>>, <<65025, 167>>, <<65026, 255>>, <<65027, 96>>>>,
     <<<<REG_LCDC, 255>>, <<REG_BGP, 228>>, <<REG_OBP0, 228>>,
       <<REG_SCY, 255>>, <<REG_SCX, 7>>, <<REG_WX, 166>>, <<REG_WY, 143>>,
       <<39936, 255>>, <<36862, 255>>,
       <<65024, 1>>, <<65025, 1>>, <<65026, 255>>, <<65027, 0>>>>,
     <<<<REG_LCDC, 163>>, <<REG_BGP, 228>>, <<REG_OBP1, 228>>,
       <<REG_WX, 255>>, <<REG_WY, 255>>,
       <<38912, 128>>, <<36848, 255>>, <<36862, 255>>,
       <<65024, 152>>, <<65025, 160>>, <<65026, 255>>, <<65027, 240>>>>}

EdgeSetup ==
    \E ws \in EdgeSetups :
        /\ obs.pumps = 0
        /\ obs.op = "new"
        /\ lcd' = WriteAll(lcd, ws)
        /\ obs' = [obs EXCEPT !.op = "write"]
        /\ UNCHANGED <<cpu, mmu, rfd, pal, units>>

\* the caller pumps the Lcd at each timer edge of a frame and a line
EdgePump ==
    LET c == Max(get_next_event_cycle(lcd), obs.cycle) IN
    /\ c <= SCREEN_CYCLE_TIME + LINE_CYCLE_TIME
    /\ DoPump(c, "pump")
    /\ UNCHANGED <<cpu, mmu, rfd, pal, units>>

NextLcdEdges == EdgeSetup \/ EdgePump

SpecLcdEdges == InitLcd /\ [][NextLcdEdges]_vars

---------------------------------------------------------------------------
(* Two Lcds given the same calls, except for set_running_until             *)

\* horizons a caller passes before the first scanline: none, and one that
\* is more than two frames ahead until the middle of the first frame
RunningUntil == {0, 175000}

TwinRunUntil ==
    \E a \in RunningUntil : \E b \in RunningUntil \ {a} :
        /\ obs.pumps = 0
        /\ lcd' = set_running_until(lcd, a)
        /\ twin' = [twin EXCEPT !.lcd = set_running_until(@, b)]
        /\ lcd' # lcd \/ twin' # twin
        /\ obs' = [obs EXCEPT !.op = "run_until"]
        /\ UNCHANGED <<cpu, mmu, rfd, pal, mbc, host, sq, aud>>

\* what a program writes to both before the first scanline
TwinWrites == SetupWrites \cup {<<REG_STAT, 8>>}

TwinWrite ==
    \E w \in TwinWrites :
        /\ obs.pumps = 0
        /\ lcd' = Lcd_write(lcd, w[1], w[2]).lcd
        /\ twin' = [twin EXCEPT !.lcd = Lcd_write(@, w[1], w[2]).lcd]
        /\ lcd' # lcd
        /\ obs' = [obs EXCEPT !.op = "write"]
        /\ UNCHANGED <<cpu, mmu, rfd, pal, mbc, host, sq, aud>>

\* both are pumped with the same cycle, each timer edge of a frame and a line
TwinPump ==
    LET c == Max(get_next_event_cycle(lcd), obs.cycle) IN
    /\ c <= SCREEN_CYCLE_TIME + LINE_CYCLE_TIME
    /\ DoPump(c, "pump")
    /\ twin' = pump_cycle(twin.lcd, c)
    /\ UNCHANGED <<cpu, mmu, rfd, pal, mbc, host, sq, aud>>

NextLcdTwin == TwinRunUntil \/ TwinWrite \/ TwinPump

SpecLcdTwin == InitLcd /\ [][NextLcdTwin]_vars

---------------------------------------------------------------------------
(* The cartridge driven by its caller: reads, writes, SRAM save and load   *)

\* ROM addresses of both halves, external RAM, and one past it
MbcReadAddrs == {0, 256, 16383, 16384, 32767, 40960, 49151, 49152}
MbcWriteAddrs == {0, 8192, 32767, 40960, 40961, 49151, 49152}
MbcValues == {0, 90, 255}
\* external RAM addresses a snapshot is compared at
MbcProbes == {40960, 40961, 45056, 49151}

InitMbc == InitWith(EmptyMap)

MbcRead ==
    \E a \in MbcReadAddrs :
        LET r == Mbc0_read(mbc, a) IN
        /\ host' = [host EXCEPT !.op = "read", !.a = a, !.v = r.v,
                                !.ok = r.ok, !.panic = r.panic]
        /\ UNCHANGED <<cpu, mmu, lcd, rfd, obs, pal, mbc, sq, aud, twin>>

MbcWrite ==
    \E a \in MbcWriteAddrs : \E v \in MbcValues :
        LET w == Mbc0_write(mbc, a, v) IN
        /\ mbc' = w.mbc
        /\ host' = [host EXCEPT !.op = "write", !.a = a, !.v = v,
                                !.ok = w.ok, !.panic = FALSE]
        /\ UNCHANGED <<cpu, mmu, lcd, rfd, obs, pal, sq, aud, twin>>

\* the host copies the slice get_sram returns
MbcSnapshot ==
    /\ host' = [host EXCEPT !.op = "get_sram", !.a = 0, !.v = 0, !.ok = TRUE,
                            !.panic = FALSE,
                            !.has_snap = TRUE,
                            !.snap = get_sram(mbc),
                            !.snap_reads =
                                [a \in MbcProbes |-> Mbc0_read(mbc, a).v]]
    /\ UNCHANGED <<cpu, mmu, lcd, rfd, obs, pal, mbc, sq, aud, twin>>

\* the host hands the copy back
MbcRestore ==
    /\ host.has_snap
    /\ mbc' = set_sram(mbc, host.snap)
    /\ host' = [host EXCEPT !.op = "set_sram", !.a = 0, !.v = 0, !.ok = TRUE,
                            !.panic = FALSE,
                            !.restored_over = mbc.ram # host.snap.bytes]
    /\ UNCHANGED <<cpu, mmu, lcd, rfd, obs, pal, sq, aud, twin>>

NextMbc == MbcRead \/ MbcWrite \/ MbcSnapshot \/ MbcRestore

SpecMbc == InitMbc /\ [][NextMbc]_vars

---------------------------------------------------------------------------
(* The square channel on its own: configured and sampled by a caller       *)

\* (hi, lo) register pairs: frequencies 2047, 2046 and 1024
SqFreqBits == {<<7, 255>>, <<7, 254>>, <<4, 0>>}
\* cycles between two sample calls
SqStrides == {0, 3, 4, 9}
SqVolumes == {8, 15}
SqDuties == {0, 2}
SqLengths == {63, 64}

\* a configuration call: the channel after it, and whether it restarted the
\* duty step timer
Configured(q, name, restarted) ==
    /\ aud.ops < MaxSqOps
    /\ sq' = q
    /\ aud' = [aud EXCEPT !.op = name, !.ops = @ + 1, !.again = FALSE,
                          !.step_at_set = IF restarted THEN sq.duty_cycle_step ELSE @,
                          !.chunks = IF restarted THEN 0 ELSE @,
                          !.tuned = @ \/ restarted]
    /\ UNCHANGED <<cpu, mmu, lcd, rfd, obs, pal, mbc, host, twin>>

\* a frame sequencer tick: the channel after it
Ticked(q, name, restarted) ==
    /\ sq' = q
    /\ aud' = [aud EXCEPT !.op = name, !.again = FALSE,
                          !.step_at_set = IF restarted THEN sq.duty_cycle_step ELSE @,
                          !.chunks = IF restarted THEN 0 ELSE @,
                          !.tuned = @ \/ restarted]
    /\ UNCHANGED <<cpu, mmu, lcd, rfd, obs, pal, mbc, host, twin>>

SqSetFrequency ==
    \E b \in SqFreqBits :
        Configured(set_frequency_from_bits(sq, b[1], b[2]), "set_frequency", TRUE)

SqSetSweep ==
    Configured(set_freqeuncy_sweepers(sq, 1, 0, TRUE), "set_sweep", FALSE)

SqSweepTick ==
    Configured(freq_sweep_update(sq), "sweep",
               SweepFires(sq) /\ SweptFrequency(sq) <= 2048)

SqUseLength ==
    \E b \in BOOLEAN : Configured(use_length_counter(sq, b), "use_length", FALSE)

SqUpdateLength ==
    \E l \in SqLengths : Configured(update_length(sq, l), "update_length", FALSE)

SqDecrementLength ==
    Configured(decrement_length(sq), "decrement_length", FALSE)

SqSetVolume ==
    \E v \in SqVolumes : Configured(set_volume(sq, v), "set_volume", FALSE)

SqSetDuty ==
    \E d \in SqDuties : Configured(set_duty_cycle(sq, d), "set_duty", FALSE)

Sampled(r, c) ==
    /\ sq' = r.sq
    /\ aud' = [aud EXCEPT !.op = "sample", !.now = c, !.out = r.out,
                          !.silent = (sq.period = 0 \/ sq.frequency > 2048
                                      \/ ~is_active(sq)),
                          !.again = (aud.op = "sample" /\ c = aud.now),
                          !.same = (r.sq = sq),
                          !.prev_out = aud.out,
                          !.chunks = IF r.sq.duty_cycle_step # sq.duty_cycle_step
                                     THEN Min(@ + 1, 2) ELSE @]
    /\ UNCHANGED <<cpu, mmu, lcd, rfd, obs, pal, mbc, host, twin>>

SqSample ==
    \E d \in SqStrides :
        /\ aud.now + d <= MaxSqCycle
        /\ Sampled(sample(sq, aud.now + d), aud.now + d)

InitSquare == InitWith(EmptyMap)

NextSquare ==
    \/ SqSetFrequency
    \/ SqSetSweep
    \/ SqSweepTick
    \/ SqUseLength
    \/ SqUpdateLength
    \/ SqDecrementLength
    \/ SqSetVolume
    \/ SqSetDuty
    \/ SqSample

SpecSquare == InitSquare /\ [][NextSquare]_vars

---------------------------------------------------------------------------
(* The square channel's envelope and sweep units, ticked by a caller       *)

SqEnvPeriods == {0, 1, 2}

SqSetEnvPeriod ==
    \E p \in SqEnvPeriods :
        Configured(set_vol_env_period(sq, p), "set_env_period", FALSE)

SqSetEnvDirection ==
    \E b \in BOOLEAN :
        Configured(increment_vol_env(sq, b), "set_env_direction", FALSE)

\* the 64 Hz tick
SqEnvTick == Ticked(volume_env_update(sq), "env_tick", FALSE)

NextSquareEnv == SqSetVolume \/ SqSetEnvPeriod \/ SqSetEnvDirection \/ SqEnvTick

SpecSquareEnv == InitSquare /\ [][NextSquareEnv]_vars

SqSweepPeriods == {0, 1, 2}
SqSweepShifts == {0, 1}

SqSetSweepers ==
    \E p \in SqSweepPeriods : \E sh \in SqSweepShifts : \E b \in BOOLEAN :
        Configured(set_freqeuncy_sweepers(sq, p, sh, b), "set_sweep", FALSE)

\* the 128 Hz tick
SqSweepRun ==
    Ticked(freq_sweep_update(sq), "sweep",
           SweepFires(sq) /\ SweptFrequency(sq) <= 2048)

NextSquareSweep == SqSetFrequency \/ SqSetSweepers \/ SqSweepRun

SpecSquareSweep == InitSquare /\ [][NextSquareSweep]_vars

---------------------------------------------------------------------------
(* palette_convert applied to every colour index and palette byte          *)

InitPalette ==
    /\ cpu = Cpu_new
    /\ mmu = Mmu_new(EmptyMap)
    /\ lcd = Lcd_new
    /\ rfd = [active |-> FALSE, stop_at_cycle |-> 0, cycles_to_run |-> 0]
    /\ obs = ObsInit
    /\ \E v \in 0..3 : \E p \in Byte :
          pal = [v |-> v, p |-> p, out |-> 0, done |-> FALSE]
    /\ InitUnits

PaletteApply ==
    /\ ~pal.done
    /\ pal' = [pal EXCEPT !.out = palette_convert(pal.v, pal.p), !.done = TRUE]
    /\ UNCHANGED <<cpu, mmu, lcd, rfd, obs, units>>

NextPalette == PaletteApply

SpecPalette == InitPalette /\ [][NextPalette]_vars

---------------------------------------------------------------------------
(* Mmu: the 16-bit address space routed to cartridge, Lcd, RAM and IE      *)

IsRom(a) == a <= 32767
IsLcd(a) == \/ in_(a, RNG_CHAR_DAT) \/ in_(a, RNG_LCD_BGDD1)
            \/ in_(a, RNG_LCD_BGDD2) \/ in_(a, RNG_LCD_OAM)
            \/ in_(a, <<REG_LCDC, REG_WX>>)
IsRam(a) == \/ in_(a, <<40960, 49151>>)     \* external RAM
            \/ in_(a, <<49152, 57343>>)     \* work RAM
            \/ in_(a, <<57344, 65023>>)     \* echo of work RAM
            \/ in_(a, <<65408, 65534>>)     \* high RAM
\* the echo range mirrors work RAM
RamKey(a) == IF in_(a, <<57344, 65023>>) THEN a - 8192 ELSE a

\* a machine state threaded through the handlers: the three structs,
\* whether the handler has returned Ok so far, and the history it records
St(c, m, l, o) == [cpu |-> c, mmu |-> m, lcd |-> l, ok |-> TRUE, obs |-> o]

Mmu_read(st, a) ==
    IF IsRom(a) THEN [ok |-> TRUE, v |-> Get(st.mmu.rom, a, 0)]
    ELSE IF IsLcd(a) THEN Lcd_read(st.lcd, a)
    ELSE IF IsRam(a) THEN [ok |-> TRUE, v |-> Get(st.mmu.ram, RamKey(a), 0)]
    ELSE IF a = 65535 THEN [ok |-> TRUE, v |-> st.mmu.interrupt_enable]
    ELSE [ok |-> FALSE, v |-> 0]

\* the machine after the Lcd device has taken a write
LcdWritten(st, w) == [st EXCEPT !.lcd = w.lcd, !.ok = w.ok]

Mmu_write(st, a, v) ==
    IF IsRom(a) THEN [st EXCEPT !.ok = FALSE]
    ELSE IF IsLcd(a)
    THEN LcdWritten(st, Lcd_write(st.lcd, a, v))
    ELSE IF IsRam(a) THEN [st EXCEPT !.mmu.ram = Put(@, RamKey(a), v, 0)]
    ELSE IF a = 65535 THEN [st EXCEPT !.mmu.interrupt_enable = v]
    ELSE [st EXCEPT !.ok = FALSE]

\* little-endian: low byte at a, high byte at a + 1
Word(l, h) == [ok |-> l.ok /\ h.ok, v |-> hi_lo(h.v, l.v)]

Mmu_read16(st, a) == Word(Mmu_read(st, a), Mmu_read(st, AddrAdd(a, 1)))

WriteHigh(s1, a, v) ==
    IF ~s1.ok THEN s1 ELSE Mmu_write(s1, AddrAdd(a, 1), hi(v))

Mmu_write16(st, a, v) == WriteHigh(Mmu_write(st, a, lo(v)), a, v)

---------------------------------------------------------------------------
(* Interrupt                                                               *)

is_enabled(int, reg) ==
    IF int = "VBlank" THEN BitAnd(reg, 1) # 0
    ELSE IF int = "LCDC" THEN BitAnd(reg, 2) # 0
    ELSE IF int = "Timer" THEN BitAnd(reg, 4) # 0
    ELSE BitAnd(reg, 16) # 0

table_address(int) ==
    IF int = "VBlank" THEN 64
    ELSE IF int = "LCDC" THEN 72
    ELSE IF int = "Timer" THEN 80
    ELSE 96

---------------------------------------------------------------------------
(* Instructions: decoded form, length and cycle cost (inst.rs)             *)

\* r and s name register operands ("" when there is none), n is the
\* immediate operand (a value, an address or a signed offset)
Ins(op, r, s, n, len, cycles) ==
    [op |-> op, r |-> r, s |-> s, n |-> n, len |-> len, cycles |-> cycles]

\* flag byte of alu::sub(a, b): Z, N set, H on nibble borrow, C on borrow
sub(a, b) ==
    [v |-> (a - b + 256) % 256,
     flags |-> (IF a = b THEN 128 ELSE 0) + 64
               + (IF a % 16 < b % 16 THEN 32 ELSE 0)
               + (IF a < b THEN 16 ELSE 0)]

get_zero(f) == Bit(f, 7) = 1
get_carry(f) == Bit(f, 4) = 1

---------------------------------------------------------------------------
(* Cpu: register access                                                    *)

read_r16(c, r) ==
    IF r = "SP" THEN c.sp
    ELSE IF r = "PC" THEN c.pc
    ELSE IF r = "AF" THEN hi_lo(c.registers["A"], c.registers["F"])
    ELSE IF r = "BC" THEN hi_lo(c.registers["B"], c.registers["C"])
    ELSE IF r = "DE" THEN hi_lo(c.registers["D"], c.registers["E"])
    ELSE hi_lo(c.registers["H"], c.registers["L"])

write_r16(c, r, v) ==
    IF r = "SP" THEN [c EXCEPT !.sp = v]
    ELSE IF r = "PC" THEN [c EXCEPT !.pc = v]
    ELSE IF r = "AF" THEN [c EXCEPT !.registers["A"] = hi(v), !.registers["F"] = lo(v)]
    ELSE IF r = "BC" THEN [c EXCEPT !.registers["B"] = hi(v), !.registers["C"] = lo(v)]
    ELSE IF r = "DE" THEN [c EXCEPT !.registers["D"] = hi(v), !.registers["E"] = lo(v)]
    ELSE [c EXCEPT !.registers["H"] = hi(v), !.registers["L"] = lo(v)]

flags(c) == c.registers["F"]

\* self.pc += o for a signed 8-bit offset
JumpRel(st, o) == [st EXCEPT !.cpu.pc = (@ + o + 65536) % 65536]
JumpAbs(st, a) == [st EXCEPT !.cpu.pc = a]

---------------------------------------------------------------------------
(* Cpu: execute                                                            *)

\* self.pc = Address(try!(self.mmu.read16(self.sp))); self.sp += Address(2)
Returned(st, r) ==
    IF ~r.ok THEN [st EXCEPT !.ok = FALSE]
    ELSE [st EXCEPT !.cpu.pc = r.v, !.cpu.sp = AddrAdd(@, 2)]

\* try!(self.mmu.write16(nsp, ..)); self.sp = nsp
Pushed(w, nsp) == IF ~w.ok THEN w ELSE [w EXCEPT !.cpu.sp = nsp]

\* the same, then self.pc = a
Called(w, a) == IF ~w.ok THEN w ELSE JumpAbs(w, a)

execute_control(st, i) ==
    LET f == flags(st.cpu) IN
    CASE i.op = "JrNZI" -> IF ~get_zero(f) THEN JumpRel(st, i.n) ELSE st
      [] i.op = "JrNCI" -> IF ~get_carry(f) THEN JumpRel(st, i.n) ELSE st
      [] i.op = "JrI" -> JumpRel(st, i.n)
      [] i.op = "JrZI" -> IF get_zero(f) THEN JumpRel(st, i.n) ELSE st
      [] i.op = "JrCI" -> IF get_carry(f) THEN JumpRel(st, i.n) ELSE st
      [] i.op = "Ret" ->
            Returned(st, Mmu_read16(st, st.cpu.sp))
      [] i.op = "JpI" -> JumpAbs(st, i.n)
      [] i.op = "JpCI" -> IF get_carry(f) THEN JumpAbs(st, i.n) ELSE st
      [] i.op = "JpZI" -> IF get_zero(f) THEN JumpAbs(st, i.n) ELSE st
      [] i.op = "JpNCI" -> IF ~get_carry(f) THEN JumpAbs(st, i.n) ELSE st
      [] i.op = "JpNZI" -> IF ~get_zero(f) THEN JumpAbs(st, i.n) ELSE st
      [] i.op = "CallI" ->
            Called(Pushed(Mmu_write16(st, AddrSub(st.cpu.sp, 2), st.cpu.pc),
                          AddrSub(st.cpu.sp, 2)),
                   i.n)

\* self[Register8::A] = try!(self.mmu.read(a))
Loaded(st, r) ==
    IF ~r.ok THEN [st EXCEPT !.ok = FALSE]
    ELSE [st EXCEPT !.cpu.registers["A"] = r.v]

\* let v = try!(self.mmu.read16(self.sp)); self.write_r16(r, v); self.sp += Address(2)
Popped(st, reg, r) ==
    IF ~r.ok THEN [st EXCEPT !.ok = FALSE]
    ELSE [st EXCEPT !.cpu = [write_r16(@, reg, r.v) EXCEPT !.sp = AddrAdd(@, 2)]]

execute_load(st, i) ==
    CASE i.op = "LdRR" -> [st EXCEPT !.cpu.registers[i.r] = st.cpu.registers[i.s]]
      [] i.op = "LdRI" -> [st EXCEPT !.cpu.registers[i.r] = i.n]
      [] i.op = "LdRI16" -> [st EXCEPT !.cpu = write_r16(@, i.r, i.n)]
      [] i.op = "LdNIA16" -> Mmu_write(st, i.n, st.cpu.registers["A"])
      [] i.op = "LdANI16" -> Loaded(st, Mmu_read(st, i.n))
      [] i.op = "Pop" -> Popped(st, i.r, Mmu_read16(st, st.cpu.sp))
      [] i.op = "Push" ->
            Pushed(Mmu_write16(st, AddrSub(st.cpu.sp, 2), read_r16(st.cpu, i.r)),
                   AddrSub(st.cpu.sp, 2))

ControlOps == {"JrNZI", "JrNCI", "JrI", "JrZI", "JrCI", "Ret", "JpI",
               "JpCI", "JpZI", "JpNCI", "JpNZI", "CallI"}
LoadOps == {"LdRR", "LdRI", "LdRI16", "LdNIA16", "LdANI16", "Pop", "Push"}

\* self.cycle += i.cycles()
AdvanceCycle(cycle, i) == cycle + i.cycles

\* the match on the instruction
Dispatch(st, i) ==
    CASE i.op = "Nop" -> st
      [] i.op = "Ei" -> [st EXCEPT !.cpu.interrupt_master_enable = TRUE]
      [] i.op = "Di" -> [st EXCEPT !.cpu.interrupt_master_enable = FALSE]
      [] i.op = "Halt" -> [st EXCEPT !.cpu.halted = TRUE]
      [] i.op = "CpI" ->
            [st EXCEPT !.cpu.registers["F"] =
                           sub(st.cpu.registers["A"], i.n).flags]
      [] i.op \in ControlOps -> execute_control(st, i)
      [] i.op \in LoadOps -> execute_load(st, i)

\* the cost is added once the match has returned without an error
Executed(r, i) ==
    IF ~r.ok THEN r
    ELSE [r EXCEPT !.cpu.cycle = AdvanceCycle(@, i),
                   !.obs.ei_since = @ \/ i.op = "Ei"]

execute(st, i) == Executed(Dispatch(st, i), i)

---------------------------------------------------------------------------
(* Cpu: interrupts, peripherals, run_cycle                                 *)

\* self.pc = Address(try!(self.mmu.read16(int.table_address()))), then
\* the halted flag is cleared; st is the machine before the service
Vectored(s2, t, st, int) ==
    IF ~t.ok THEN [s2 EXCEPT !.ok = FALSE]
    ELSE [s2 EXCEPT !.cpu.pc = t.v,
                    !.cpu.halted = FALSE,
                    !.obs.serviced = @ + 1,
                    !.obs.svc = TRUE,
                    !.obs.svc_int = int,
                    !.obs.svc_pc = st.cpu.pc,
                    !.obs.svc_sp = st.cpu.sp,
                    !.obs.svc_armed = st.obs.serviced = 0 \/ st.obs.ei_since,
                    !.obs.ei_since = FALSE,
                    !.obs.pending = @ \ {int}]

\* s2 is the machine once the old pc is pushed
Service(s2, st, int) ==
    IF ~s2.ok THEN s2
    ELSE Vectored(s2, Mmu_read16(s2, table_address(int)), st, int)

handle_interrupt(st, int) ==
    IF st.cpu.interrupt_master_enable /\ is_enabled(int, st.mmu.interrupt_enable)
    THEN Service(Pushed(Mmu_write16(st, AddrSub(st.cpu.sp, 2), st.cpu.pc),
                        AddrSub(st.cpu.sp, 2)),
                 st, int)
    ELSE [st EXCEPT !.cpu.halted = FALSE, !.obs.pending = @ \cup {int}]

\* if let Some(i) = pump_cycle(..) { try!(self.handle_interrupt(i)) }
Driven(s1, int) == IF int # "None" THEN handle_interrupt(s1, int) ELSE s1

PumpedBy(st, p) ==
    Driven([st EXCEPT !.lcd = p.lcd,
                      !.obs = ObsPump(@, st.lcd, st.cpu.cycle, p.int)],
           p.int)

drive_peripherals(st) == PumpedBy(st, pump_cycle(st.lcd, st.cpu.cycle))

\* fetch_instruction reads the three bytes at pc; what they decode to is
\* the caller's choice of program, "DecodeError" for an unknown opcode
FetchOk(st) ==
    /\ Mmu_read(st, st.cpu.pc).ok
    /\ Mmu_read(st, AddrAdd(st.cpu.pc, 1)).ok
    /\ Mmu_read(st, AddrAdd(st.cpu.pc, 2)).ok

\* try!(self.execute(instruction)); self.drive_peripherals()
ThenDrive(s2) == IF ~s2.ok THEN s2 ELSE drive_peripherals(s2)

run_cycle(st, i) ==
    IF st.cpu.halted THEN st
    ELSE IF ~FetchOk(st) \/ i.op = "DecodeError" THEN [st EXCEPT !.ok = FALSE]
    ELSE ThenDrive(execute([st EXCEPT !.cpu.pc = AddrAdd(@, i.len),
                                      !.obs.icount = @ + 1,
                                      !.obs.ins = i.op],
                           i))

---------------------------------------------------------------------------
(* Cpu: run_for_duration                                                   *)

CLOCK_RATE == 4190000

duration_to_cycle_count(d) == d.secs * CLOCK_RATE + ClockCycles(d.nanos)

\* (faulty variant: the horizon is not taken into account)
HaltedCycle_unbounded(l, stop_at_cycle) == get_next_event_cycle(l)
\* the cycle the halted branch of the loop assigns
HaltedCycle(l, stop_at_cycle) == Min(get_next_event_cycle(l), stop_at_cycle)

\* one iteration of the while loop: run_cycle, whose error is only
\* reported, then the halted fast-forward
FastForward(s2, stop_at_cycle) ==
    IF s2.cpu.halted
    THEN [drive_peripherals(
             [s2 EXCEPT !.cpu.cycle = HaltedCycle(s2.lcd, stop_at_cycle)])
          EXCEPT !.ok = TRUE]
    ELSE s2

\* the result of run_cycle with its error noted and not propagated
Reported(r) ==
    [r EXCEPT !.ok = TRUE, !.obs.err = ~r.ok, !.obs.ran_to = r.cpu.cycle]

run_for_duration_iter(st, i, stop_at_cycle) ==
    FastForward(Reported(run_cycle(st, i)), stop_at_cycle)

---------------------------------------------------------------------------
(* The Cpu driven by a host: run_cycle and run_for_duration calls          *)

\* the instructions a program is drawn from
InstrSet ==
    {Ins("Nop", "", "", 0, 1, 4), Ins("Ei", "", "", 0, 1, 4),
     Ins("Halt", "", "", 0, 1, 4),
     Ins("LdRI", "A", "", 11, 2, 8),
     Ins("DecodeError", "", "", 0, 0, 0)}
       \cup {Ins("LdNIA16", "", "", a, 3, 16) : a \in {65535, REG_STAT}}

\* the durations a host asks for: 419 cycles and 6 cycles
Durations == {[secs |-> 0, nanos |-> 100000], [secs |-> 0, nanos |-> 1500]}

\* the machine at the start of a step
Now == St(cpu, mmu, lcd, [obs EXCEPT !.svc = FALSE, !.err = FALSE])

Commit(st, op) ==
    /\ cpu' = st.cpu
    /\ mmu' = st.mmu
    /\ lcd' = st.lcd
    /\ obs' = [st.obs EXCEPT !.op = op]

Direct(r) ==
    [r EXCEPT !.obs.err = ~r.ok, !.obs.direct = @ + 1,
              !.obs.ran_to = r.cpu.cycle]

\* the host calls run_cycle itself
RunCycle ==
    \E i \in InstrSet :
        /\ ~rfd.active
        /\ ~cpu.halted
        /\ obs.icount < MaxInstr
        /\ obs.direct < MaxDirect
        /\ Commit(Direct(run_cycle(Now, i)), "run_cycle")
        /\ UNCHANGED <<rfd, pal, units>>

\* the host calls run_for_duration(d)
RunForDurationCall ==
    \E d \in Durations :
        /\ ~rfd.active
        /\ obs.calls < MaxCalls
        /\ rfd' = [active |-> TRUE,
                   stop_at_cycle |-> cpu.cycle + duration_to_cycle_count(d),
                   cycles_to_run |-> duration_to_cycle_count(d)]
        /\ obs' = [obs EXCEPT !.op = "call", !.calls = @ + 1,
                              !.svc = FALSE, !.err = FALSE]
        /\ UNCHANGED <<cpu, mmu, lcd, pal, units>>

\* one iteration of its loop
RunForDurationIter ==
    \E i \in InstrSet :
        /\ rfd.active
        /\ cpu.cycle < rfd.stop_at_cycle
        /\ cpu.halted \/ obs.icount < MaxInstr
        /\ cpu.halted => i.op = "Nop"
        /\ Commit(run_for_duration_iter(Now, i, rfd.stop_at_cycle), "iter")
        /\ UNCHANGED <<rfd, pal, units>>

\* the loop ends and run_for_duration returns
RunForDurationReturn ==
    /\ rfd.active
    /\ cpu.cycle >= rfd.stop_at_cycle
    /\ rfd' = [rfd EXCEPT !.active = FALSE]
    /\ obs' = [obs EXCEPT !.op = "return", !.svc = FALSE, !.err = FALSE]
    /\ UNCHANGED <<cpu, mmu, lcd, pal, units>>

InitCpu == \E rom \in RomChoices : InitWith(rom)

NextCpu ==
    RunCycle \/ RunForDurationCall \/ RunForDurationIter \/ RunForDurationReturn

SpecCpu == InitCpu /\ [][NextCpu]_vars

---------------------------------------------------------------------------
(* The Cpu running the program held in its cartridge                       *)

\* Instruction::decode on the opcodes the programs below are made of:
\* 0x00 NOP, 0x76 HALT; any other first byte here is an unknown opcode
decode(b0, b1, b2) ==
    IF b0 = 0 THEN Ins("Nop", "", "", 0, 1, 4)
    ELSE IF b0 = 118 THEN Ins("Halt", "", "", 0, 1, 4)
    ELSE IF b0 = 251 THEN Ins("Ei", "", "", 0, 1, 4)
    ELSE IF b0 = 62 THEN Ins("LdRI", "A", "", b1, 2, 8)
    ELSE IF b0 = 49 THEN Ins("LdRI16", "SP", "", hi_lo(b2, b1), 3, 12)
    ELSE IF b0 = 234 THEN Ins("LdNIA16", "", "", hi_lo(b2, b1), 3, 16)
    ELSE Ins("DecodeError", "", "", 0, 0, 0)

\* fetch_instruction: the three bytes at pc, decoded
fetch_instruction(st) ==
    decode(Mmu_read(st, st.cpu.pc).v,
           Mmu_read(st, AddrAdd(st.cpu.pc, 1)).v,
           Mmu_read(st, AddrAdd(st.cpu.pc, 2)).v)

\* cartridges: NOPs throughout; HALT at 0x0100; the unused opcode 0xD3 at
\* 0x0102 after two NOPs
Programs == {EmptyMap, (256 :> 118), (258 :> 211)}

InitCpuLive == \E rom \in Programs : InitWith(rom)

\* one iteration of run_for_duration's loop on the fetched instruction
ProgramIter ==
    /\ rfd.active
    /\ cpu.cycle < rfd.stop_at_cycle
    /\ Commit(run_for_duration_iter(Now, fetch_instruction(Now), rfd.stop_at_cycle),
              "iter")
    /\ UNCHANGED <<rfd, pal, units>>

NextCpuLive == RunForDurationCall \/ ProgramIter \/ RunForDurationReturn

\* an iteration that leaves the machine exactly as it found it
Unmoved(r) ==
    /\ r.cpu = cpu
    /\ r.mmu = mmu
    /\ r.lcd = lcd
    /\ [r.obs EXCEPT !.op = "iter"] = obs

\* ENABLED <<ProgramIter>>_vars: the loop condition holds and the iteration
\* changes the machine
ProgramIterEnabled ==
    /\ rfd.active
    /\ cpu.cycle < rfd.stop_at_cycle
    /\ ~Unmoved(run_for_duration_iter(Now, fetch_instruction(Now),
                                      rfd.stop_at_cycle))

\* a step of the loop
ProgramIterStep ==
    rfd.active /\ cpu.cycle < rfd.stop_at_cycle /\ UNCHANGED rfd

\* WF_vars(ProgramIter), with its enabling condition written out
LoopRuns == []<>(~ProgramIterEnabled) \/ []<><<ProgramIterStep>>_vars

\* the loop keeps iterating while its condition holds, and returns once it
\* does not
SpecCpuLive ==
    /\ InitCpuLive
    /\ [][NextCpuLive]_vars
    /\ LoopRuns
    /\ WF_vars(RunForDurationReturn)

---------------------------------------------------------------------------
(* A halted Cpu run through the vblank rising edge                         *)

\* the bytes of code placed at 0x0100
Rom(code) == [a \in 256..(255 + Len(code)) |-> code[a - 255]]

\* cartridges: HALT; LD A,1 / LD (0xFFFF),A / HALT; the same with EI before
\* HALT; and the same again after LD SP,0x0100
HaltPrograms ==
    {Rom(<<118>>),
     Rom(<<62, 1, 234, 255, 255, 118>>),
     Rom(<<62, 1, 234, 255, 255, 251, 118>>),
     Rom(<<49, 0, 1, 62, 1, 234, 255, 255, 251, 118>>)}

InitCpuHalt == \E rom \in HaltPrograms : InitWith(rom)

\* a duration that ends 11 cycles after the first vblank rising edge
FrameDurations == {[secs |-> 0, nanos |-> 15640000]}

RunFrameCall ==
    \E d \in FrameDurations :
        /\ ~rfd.active
        /\ obs.calls < MaxCalls
        /\ rfd' = [active |-> TRUE,
                   stop_at_cycle |-> cpu.cycle + duration_to_cycle_count(d),
                   cycles_to_run |-> duration_to_cycle_count(d)]
        /\ obs' = [obs EXCEPT !.op = "call", !.calls = @ + 1,
                              !.svc = FALSE, !.err = FALSE]
        /\ UNCHANGED <<cpu, mmu, lcd, pal, units>>

NextCpuHalt == RunFrameCall \/ ProgramIter \/ RunForDurationReturn

SpecCpuHalt == InitCpuHalt /\ [][NextCpuHalt]_vars

---------------------------------------------------------------------------
(* The Cpu running register and stack instructions                         *)

\* LD BC,d16; PUSH BC; POP AF; POP BC; CP d8; LD A,(BGP); JR Z,+2 with
\* cycles() answering its taken cost or its not-taken cost
RegInstrSet ==
    {Ins("LdRI16", "BC", "", 4623, 3, 12),
     Ins("JrZI", "", "", 2, 2, 12),
     Ins("JrZI", "", "", 2, 2, 8),
     Ins("LdANI16", "", "", REG_BGP, 3, 16),
     Ins("Push", "BC", "", 0, 1, 16),
     Ins("Pop", "AF", "", 0, 1, 12),
     Ins("Pop", "BC", "", 0, 1, 12),
     Ins("CpI", "", "", 5, 2, 8)}

RegRunCycle ==
    \E i \in RegInstrSet :
        /\ ~cpu.halted
        /\ obs.icount < MaxInstr
        /\ Commit(Direct(run_cycle(Now, i)), "run_cycle")
        /\ UNCHANGED <<rfd, pal, units>>

NextCpuRegs == RegRunCycle

SpecCpuRegs == InitCpu /\ [][NextCpuRegs]_vars

---------------------------------------------------------------------------
(* Properties                                                              *)

\* C1: across every step of run_cycle and run_for_duration calls,
\* including the halted fast-forward, the cycle counter never decreases:
\* neither from one call or loop iteration to the next, nor from the value
\* run_cycle left to the value the halted branch assigns.
C1_CycleNeverDecreases ==
    [][cpu'.cycle >= cpu.cycle /\ cpu'.cycle >= obs'.ran_to]_vars


\* C2: pumped through every timer edge, LY only ever steps by +1 up to
\* 153 or wraps from 153 to 0.
C2_LyAscendsTo153 ==
    [][\/ lcd'.ly = lcd.ly
       \/ lcd'.ly = lcd.ly + 1 /\ lcd'.ly <= 153
       \/ lcd.ly = 153 /\ lcd'.ly = 0]_vars

\* C3: pump_cycle has returned VBlank exactly once for every frame whose
\* vblank start the pumped cycle has reached, whatever STAT holds.
C3_OneVBlankPerFrame ==
    obs.vblanks = (obs.cycle + VBLANK_DURATION) \div SCREEN_CYCLE_TIME

\* the second frame's VBlank has just been returned with LCDC interrupt
\* sources enabled in STAT
C3_Witness ==
    /\ obs.op = "pump"
    /\ obs.int = "VBlank"
    /\ obs.vblanks = 2
    /\ is_hblank_int_enabled(lcd)

\* C4: a serviced interrupt pushes the old PC and leaves PC at the
\* interrupt's vector address.
C4_ServiceJumpsToVector ==
    obs.svc =>
        /\ cpu.sp = AddrSub(obs.svc_sp, 2)
        /\ Mmu_read16(St(cpu, mmu, lcd, obs), cpu.sp).v = obs.svc_pc
        /\ cpu.pc = table_address(obs.svc_int)

\* C5: servicing an interrupt clears IME, and every service after the
\* first follows an Ei executed since the one before.
C5_ServiceClearsIme ==
    /\ obs.svc => ~cpu.interrupt_master_enable
    /\ obs.svc_armed

\* C6: at an instruction boundary no interrupt that a peripheral returned
\* is left unserviced while IME is true and its IE bit is set.
C6_PendingIsServiced ==
    (obs.op \in {"run_cycle", "iter"} /\ ~obs.err) =>
        ~\E i \in obs.pending :
            /\ cpu.interrupt_master_enable
            /\ is_enabled(i, mmu.interrupt_enable)

\* C7: every timer with an edge due when pump_cycle is called has that
\* edge applied by the call.
C7_EveryDueEdgeApplied ==
    [][obs'.pumps > obs.pumps =>
          \A n \in DueTimers(lcd, obs'.cycle) : lcd'[n] # lcd[n]]_vars

\* C8: the displayed buffer changes identity only in a pump_cycle call
\* that processes a vblank rising edge, and keeps its contents otherwise.
C8_FrontBufferStable ==
    [][/\ lcd'.fbi # lcd.fbi =>
            obs'.pumps > obs.pumps /\ obs'.int = "VBlank"
       /\ lcd'.fbi = lcd.fbi =>
            lcd'.fbs[get_framebuffer(lcd')] = lcd.fbs[get_framebuffer(lcd)]]_vars

\* after a swap, the next frame is being drawn into the other buffer and
\* differs from the one on display
C8_Witness ==
    /\ obs.vblanks >= 1
    /\ lcd.fbs[1 - lcd.fbi] # EmptyMap
    /\ lcd.fbs[lcd.fbi] # EmptyMap
    /\ lcd.fbs[1 - lcd.fbi] # lcd.fbs[lcd.fbi]

\* C9: before any run_cycle the registers hold the power-on values.
C9_PowerOnRegisters ==
    obs.op = "new" =>
        /\ cpu.pc = 256
        /\ cpu.sp = 65534
        /\ read_r16(cpu, "AF") = 432
        /\ read_r16(cpu, "BC") = 19
        /\ read_r16(cpu, "DE") = 216
        /\ read_r16(cpu, "HL") = 333

\* C10: palette_convert(v, p) is the two-bit field of p at bit 2v, a
\* value in 0..3.
C10_PaletteField ==
    pal.done =>
        /\ pal.out = Bit(pal.p, 2 * pal.v) + 2 * Bit(pal.p, 2 * pal.v + 1)
        /\ pal.out \in 0..3

\* the conversion of the source's own test: index 1 under palette 0b0100
C10_Witness == pal.done /\ pal.v = 1 /\ pal.p = 4 /\ pal.out = 1

\* C11: after any writes into tile data, every cached tile row holds, for
\* each pixel x, bit 7-x of the byte at 16t+2r as its low bit and bit 7-x
\* of the byte at 16t+2r+1 as its high bit.
C11_TileCacheCoherent ==
    \A t \in 0..(TILE_COUNT - 1) : \A r \in 0..7 :
        LET b1 == Get(lcd.cdata, 16 * t + 2 * r, 0)
            b2 == Get(lcd.cdata, 16 * t + 2 * r + 1, 0)
        IN \A x \in 0..7 :
              read_row(lcd, t, r)[x] = Bit(b1, 7 - x) + 2 * Bit(b2, 7 - x)

\* both bytes of tile 0 row 0 and an odd byte of the last tile are written
C11_Witness ==
    /\ obs.op = "write_tile"
    /\ Get(lcd.cdata, 0, 0) = 60
    /\ Get(lcd.cdata, 1, 0) = 126
    /\ read_row(lcd, 0, 0)[1] = 2
    /\ read_row(lcd, 0, 0)[2] = 3
    /\ Get(lcd.cdata, 6143, 0) = 60
    /\ read_row(lcd, 383, 7)[2] = 2

\* C12: after any writes into OAM, every cached sprite record holds the
\* four OAM bytes at 4i..4i+3 as y, x, tile and flags.
C12_ObjCacheCoherent ==
    \A i \in 0..(OBJ_COUNT - 1) :
        Get(lcd.objs, i, Obj_default) =
            [y |-> Get(lcd.oam, 4 * i, 0),
             x |-> Get(lcd.oam, 4 * i + 1, 0),
             char_ |-> Get(lcd.oam, 4 * i + 2, 0),
             flags |-> Get(lcd.oam, 4 * i + 3, 0)]

\* the flags byte of sprite 0, two bytes of sprite 1 and the last byte of
\* sprite 39 are written
C12_Witness ==
    /\ obs.op = "write_oam"
    /\ Get(lcd.objs, 0, Obj_default).flags = 144
    /\ Get(lcd.objs, 1, Obj_default).x = 16
    /\ Get(lcd.objs, 1, Obj_default).char_ = 144
    /\ Get(lcd.objs, 39, Obj_default).flags = 16

\* C13: a write to any ROM address 0x0000-0x7FFF returns BusError and
\* leaves the ROM bytes and the external RAM as they were.
C13_RomWriteRejected ==
    [][(host'.op = "write" /\ host'.a <= 32767) =>
          /\ ~host'.ok
          /\ mbc'.rom = mbc.rom
          /\ mbc'.ram = mbc.ram]_vars

\* a ROM write is attempted while external RAM holds data
C13_Witness ==
    /\ host.op = "write"
    /\ host.a = 8192
    /\ host.v = 255
    /\ ~host.ok
    /\ Get(mbc.ram, 0, 0) = 90

\* C14: a read at any ROM address 0x0000-0x7FFF returns the ROM byte at
\* that offset and never BusError.
C14_RomReadDirect ==
    (host.op = "read" /\ host.a <= 32767) =>
        /\ host.ok
        /\ host.v = Get(mbc.rom.bytes, host.a, 0)

\* C15: after set_sram of an earlier get_sram copy, every external RAM
\* read returns the value it had when the copy was taken.
C15_SramRoundTrip ==
    host.op = "set_sram" =>
        \A a \in MbcProbes :
            LET r == Mbc0_read(mbc, a) IN
            r.ok /\ r.v = host.snap_reads[a]

\* a copy taken with data at the first and last byte is restored over
\* later writes to both
C15_Witness ==
    /\ host.op = "set_sram"
    /\ host.restored_over
    /\ host.snap_reads[40960] = 90
    /\ host.snap_reads[49151] = 255
    /\ host.snap_reads[40961] = 0
    /\ Mbc0_read(mbc, 49151).v = 255

\* C16: for an active channel with period P > 0, after sample(c) the duty step
\* equals floor((c - offset) / P) mod 8, where offset is the cycle the duty
\* step timer was last restarted from, however the time is split over calls.
C16_StepClosedForm ==
    (aud.op = "sample" /\ ~aud.silent) =>
        sq.duty_cycle_step =
            ((aud.now - sq.duty_cycle_step_timer_offset) \div sq.period) % 8

\* C16 as it holds: the steps taken since the timer was last restarted are
\* floor((c - offset) / P), counted from the step the channel was at then.
C16_StepsSinceSet ==
    (aud.op = "sample" /\ ~aud.silent) =>
        sq.duty_cycle_step =
            (aud.step_at_set
             + (aud.now - sq.duty_cycle_step_timer_offset) \div sq.period) % 8

\* the elapsed time was split over two advancing calls, after a restart that
\* found the channel at a step other than 0
C16_Witness ==
    /\ aud.op = "sample" /\ ~aud.silent
    /\ aud.chunks = 2
    /\ aud.step_at_set # 0
    /\ sq.duty_cycle_step # aud.step_at_set

\* C17: sample returns 0 and leaves the whole channel unchanged when the
\* channel is inactive, its period is 0, or its frequency exceeds 2048.
C17_SilentSampleInert ==
    [][(aud'.op = "sample" /\ (sq.period = 0 \/ sq.frequency > 2048
                               \/ ~is_active(sq)))
        => aud'.out = 0 /\ sq' = sq]_vars

\* a silent sample taken later than the cycle last recorded, with volume set
C17_Witness ==
    /\ aud.op = "sample" /\ aud.silent
    /\ aud.now > sq.last_cpu_cycle
    /\ sq.vol > 0

\* C18: a second sample(c) at the same cycle returns what the first returned
\* and changes nothing in the channel.
C18_SampleIdempotent ==
    (aud.op = "sample" /\ aud.again) => aud.out = aud.prev_out /\ aud.same

\* a repeated call on a sounding channel whose first call advanced the step
C18_Witness ==
    /\ aud.op = "sample" /\ aud.again /\ ~aud.silent
    /\ aud.out # 0
    /\ sq.duty_cycle_step # aud.step_at_set

\* C19: in every reachable Cpu state the low four bits of register F are 0.
C19_FlagLowBitsZero == cpu.registers["F"] % 16 = 0

\* C20: a run_cycle call that returns an error leaves PC, the cycle counter
\* and the registers as it found them.
C20_FailedCallInert ==
    [][(obs'.op \in {"run_cycle", "iter"} /\ obs'.err)
        => /\ cpu'.pc = cpu.pc
           /\ cpu'.cycle = cpu.cycle
           /\ cpu'.registers = cpu.registers]_vars

\* C21: every run_for_duration call returns, with the cycle counter at or
\* past its horizon.
C21_RunForDurationReturns ==
    /\ rfd.active ~> ~rfd.active
    /\ [](obs.op = "return" => cpu.cycle >= rfd.stop_at_cycle)

\* C22: a write to LY reports success and leaves every Lcd register as it
\* was.
C22_LyWriteDiscarded ==
    [][obs'.op = "write_ly" => ~obs'.err /\ lcd' = lcd]_vars

\* the mode bits of STAT
StatMode(l) == l.stat % 4

\* C23: within the visible scanlines a pump moves the mode bits only from
\* 10 to 11, from 11 to 00 and from 00 to 10, and LY increments only out of
\* mode 00 (at the end of the hblank).
C23_ModeSequence ==
    [][(obs'.op = "pump" /\ lcd.ly < 144 /\ lcd'.ly < 144) =>
          /\ \/ StatMode(lcd') = StatMode(lcd)
             \/ StatMode(lcd) = 2 /\ StatMode(lcd') = 3
             \/ StatMode(lcd) = 3 /\ StatMode(lcd') = 0
             \/ StatMode(lcd) = 0 /\ StatMode(lcd') = 2
          /\ lcd'.ly # lcd.ly => StatMode(lcd) = 0]_vars

\* C24: once the pumped cycle is between the vblank rising edge and the
\* vblank falling edge of its frame, with LY in 144..153, the mode bits are 01.
C24_VblankModeHeld ==
    (/\ obs.op = "pump"
     /\ lcd.ly \in 144..153
     /\ obs.cycle % SCREEN_CYCLE_TIME >= SCREEN_H * LINE_CYCLE_TIME)
        => StatMode(lcd) = 1

C26_BranchCostObserved ==
    [][(obs'.op = "run_cycle" /\ obs'.icount = obs.icount + 1
        /\ ~obs'.err /\ obs'.ins = "JrZI")
        => cpu'.cycle - cpu.cycle = IF get_zero(flags(cpu)) THEN 12 ELSE 8]_vars

\* C27: a firing envelope tick sets the volume to min(volume + 1, 15) in
\* increment direction and to max(volume - 1, 0) in decrement direction.
C27_EnvelopeSaturates ==
    [][(aud'.op = "env_tick" /\ sq.vol_counter.period # 0
        /\ Clock_tick(sq.vol_counter).fired)
        => sq'.vol = IF sq.vol_env_increment THEN Min(sq.vol + 1, 15)
                     ELSE Max(sq.vol - 1, 0)]_vars

\* what a sweep tick does to the frequency and the period; with shift 0 a
\* decrementing tick keeps the period when the period is a derived one
SweepStep(derived) ==
    aud'.op = "sweep" =>
        IF sq.frequency_sweep_counter.period = 0
        THEN sq' = sq
        ELSE IF ~Clock_tick(sq.frequency_sweep_counter).fired
        THEN sq'.frequency = sq.frequency /\ sq'.period = sq.period
        ELSE IF sq.frequency_increment
        THEN sq'.frequency =
                 Min(sq.frequency + Shr(sq.frequency, sq.frequency_shift), 2049)
        ELSE IF sq.frequency_shift # 0
        THEN sq'.frequency =
                 sq.frequency - Shr(sq.frequency, sq.frequency_shift)
        ELSE sq'.frequency = sq.frequency /\ (derived => sq'.period = sq.period)

\* C28: a sweep tick changes the frequency as specified, and after any
\* sequence of frequency writes and sweep ticks the frequency is at most
\* 2049 and, while it is at most 2048, the period is 4 * (2048 - frequency).
C28_SweepAndPeriod ==
    /\ [][SweepStep(TRUE)]_vars
    /\ [](/\ sq.frequency <= 2049
          /\ sq.frequency <= 2048 => sq.period = 4 * (2048 - sq.frequency))

\* C28 as it holds: the period is 4 * (2048 - frequency), and a decrementing
\* tick with shift 0 leaves it unchanged, once a frequency write or a firing
\* sweep tick has derived it; a new channel has frequency 0 and period 0.
C28_SweepAndDerivedPeriod ==
    /\ [][SweepStep(aud.tuned)]_vars
    /\ [](/\ sq.frequency <= 2049
          /\ (aud.tuned /\ sq.frequency <= 2048)
                => sq.period = 4 * (2048 - sq.frequency))

\* a firing decrementing sweep tick has just taken the frequency down from
\* above 2048, and the period has followed it
C28_Witness ==
    /\ aud.op = "sweep"
    /\ ~sq.frequency_increment /\ sq.frequency_shift # 0
    /\ sq.frequency = 1025
    /\ sq.period = 4 * (2048 - 1025)

\* the sprite is placed where the specification says nothing of it shows
OffScreen(obj) == obj.x = 0 \/ obj.x >= 168 \/ obj.y = 0 \/ obj.y >= 160

\* C29: a sprite whose x is 0 or at least 168, or whose y is 0 or at least
\* 160, leaves the back framebuffer unchanged on every scanline that
\* do_hblank_start renders (LY below 144), and a pump_cycle call with only
\* such sprites leaves the framebuffers unchanged.
C29_OffScreenSpriteInert ==
    /\ [](\A i \in 0..(OBJ_COUNT - 1) :
            LET obj == Get(lcd.objs, i, Obj_default)
                fb == lcd.fbs[get_back_framebuffer(lcd)]
            IN (lcd.ly < SCREEN_H /\ OffScreen(obj))
                  => render_obj(lcd, fb, obj) = fb)
    /\ [][(obs'.op = "pump"
           /\ \A i \in 0..(OBJ_COUNT - 1) :
                 OffScreen(Get(lcd.objs, i, Obj_default)))
          => lcd'.fbs = lcd.fbs]_vars

\* a 16-row sprite with every flag set and x = 168, on a line it would
\* cover, has been through render_oam_row at the start of hblank
C29_Witness ==
    /\ obs.op = "pump" /\ "hblank_timer" \in obs.due
    /\ lcd.ly = 0 /\ StatMode(lcd) = 0
    /\ lcd.lcdc = 134
    /\ Get(lcd.objs, 0, Obj_default) = [y |-> 16, x |-> 168, char_ |-> 0, flags |-> 240]
    /\ read_row(lcd, 0, 0) # BlankRow /\ lcd.obp0 = 228

\* C30: two Lcds that differ only in running_until_cycle return the same
\* interrupt from every pump_cycle call and have equal LY, STAT and front
\* framebuffer index after every call.
C30_SkippingKeepsState ==
    /\ obs.int = twin.int
    /\ lcd.ly = twin.lcd.ly
    /\ lcd.stat = twin.lcd.stat
    /\ get_framebuffer(lcd) = get_framebuffer(twin.lcd)

\* one Lcd has rendered a scanline the other skipped, and an hblank
\* interrupt has just been returned by both
C30_Witness ==
    /\ obs.op = "pump" /\ obs.int = "LCDC" /\ "hblank_timer" \in obs.due
    /\ lcd.running_until_cycle # twin.lcd.running_until_cycle
    /\ lcd.fbs # twin.lcd.fbs

\* C31: an interrupt returned by the LCD pump clears halted, also when it is
\* not serviced, and then PC, SP and memory are unchanged; so a halted Cpu
\* is not halted any more once the pump has returned VBlank.
C31_InterruptWakes ==
    /\ [](obs.int # "None" => ~cpu.halted)
    /\ [][(cpu.halted /\ ~cpu'.halted /\ ~obs'.svc)
            => cpu'.pc = cpu.pc /\ cpu'.sp = cpu.sp /\ mmu' = mmu]_vars

\* the part of C31 about an interrupt that is not serviced
C31_UnservicedWakes ==
    /\ [](obs.int # "None" /\ ~obs.svc /\ ~obs.err
            /\ ~(cpu.interrupt_master_enable
                 /\ is_enabled(obs.int, mmu.interrupt_enable))
          => ~cpu.halted)
    /\ [][(cpu.halted /\ ~cpu'.halted /\ ~obs'.svc)
            => cpu'.pc = cpu.pc /\ cpu'.sp = cpu.sp /\ mmu' = mmu]_vars

\* C32: every index into the tile cache that rendering the current line
\* uses is below 384, and every pixel written to a framebuffer is at a row
\* below 144 and a column below 160.
C32_RenderInBounds ==
    /\ lcd.ly < SCREEN_H => \A t \in render_indices(lcd) : t \in 0..(TILE_COUNT - 1)
    /\ \A b \in {0, 1} : \A p \in DOMAIN lcd.fbs[b] :
          p[1] \in 0..(SCREEN_H - 1) /\ p[2] \in 0..(SCREEN_W - 1)

\* the last line has been rendered with signed tile numbering: the flipped
\* 16-row sprite read its second tile and drew the bottom right pixel
C32_Witness ==
    /\ obs.op = "pump" /\ "hblank_timer" \in obs.due
    /\ lcd.ly = SCREEN_H - 1
    /\ get_bg_char_addr_start(lcd)
    /\ 255 \in render_indices(lcd)
    /\ <<SCREEN_H - 1, SCREEN_W - 1>> \in DOMAIN lcd.fbs[get_back_framebuffer(lcd)]

\* C33: a pump_cycle call that changes LY leaves STAT bit 2 set exactly when
\* the new LY equals LYC and STAT bits 3..7 as they were; with only the LYC
\* interrupt enabled, LCDC is returned only at a hblank end or a vblank end
\* where the new LY equals LYC and STAT bit 6 is set.
C33_LycFlagFollowsLy ==
    /\ [][(obs'.op = "pump" /\ lcd'.ly # lcd.ly)
            => /\ (Bit(lcd'.stat, 2) = 1) <=> (lcd'.ly = lcd'.lyc)
               /\ lcd'.stat \div 8 = lcd.stat \div 8]_vars
    /\ [][(obs'.op = "pump" /\ obs'.int = "LCDC")
            => /\ lcd'.ly # lcd.ly
               /\ lcd'.ly = lcd'.lyc
               /\ Bit(lcd'.stat, 6) = 1
               /\ \/ Timer_update(lcd.hblank_timer, obs'.cycle).ev = "FallingEdge"
                  \/ Timer_update(lcd.vblank_timer, obs'.cycle).ev = "FallingEdge"]_vars

\* the vblank falling edge has taken LY to 0 = LYC with the LYC interrupt
\* enabled: LCDC was returned and the match flag is set
C33_Witness ==
    /\ obs.op = "pump" /\ obs.int = "LCDC" /\ "vblank_timer" \in obs.due
    /\ lcd.ly = 0 /\ lcd.lyc = 0
    /\ lcd.stat = LYC_MATCH_INT_FLAG + LYC_MATCH_FLAG

=============================================================================
